---- MODULE Spec2Model ----
(***************************************************************************)
(* Model of Uebung_1/Intmul/intmul.c: one invocation of intmul (the        *)
(* "parent"), the four pipes pairs it creates and its four forked          *)
(* children.  A child is the same program started by execlp on the request *)
(* it reads from its pipe; what it computes is given by the operator       *)
(* Intmul, which follows main recursively.                                  *)
(*                                                                         *)
(* Characters are their ASCII codes (the code does arithmetic on them):    *)
(* '\n' = 10, '0' = 48 .. '9' = 57, 'A' = 65 .. 'F' = 70,                  *)
(* 'a' = 97 .. 'f' = 102.  A string is a sequence of characters without    *)
(* the terminating NUL.                                                    *)
(*                                                                         *)
(* The last part models Uebung_1/Vigenere/vigenere.c: the key check of     *)
(* main and the line loop of encryption and decryption, on the variables   *)
(* key, decrypt, stdin and out.                                            *)
(***************************************************************************)
EXTENDS Integers, Sequences, FiniteSets

VARIABLES
    argc,                \* number of command line arguments of the parent
    stdin,               \* what the parent's standard input holds
    pc,                  \* where the parent is in main
    idx,                 \* the loop variable i of the loop the parent is in
    inputA, inputB,      \* the operands
    halves,              \* Ah, Al, Bh, Bl
    pfd,                 \* the pipe ends open in the parent
    child,               \* child i: none, forked, ready, got, exit0, exit1, signal
    chold,               \* the pipe ends open in child i
    outb,                \* the bytes in the pipe to child i
    inb,                 \* the bytes in the pipe from child i
    creq,                \* what child i read from its standard input
    collected,           \* the children waitpid has returned for
    exitOrder,           \* the children in the order they terminated
    intermediateResults, \* the lines read from the children
    final,               \* final_result
    out,                 \* what the parent wrote to its standard output
    exitStatus,          \* none, success (exit 0), failure (exit 1), signal
    faults,              \* the failures of the environment so far
    nread,               \* the bytes the parent has read from its standard input
    tasks,               \* the processes forked so far, at every level
    leaves,              \* the single digit multiplications done so far
    depths,              \* the levels (0 = the parent) they were done at
    key,                 \* vigenere: the key argument
    decrypt,             \* vigenere: whether -d was given
    hexChar,             \* the argument of hexDigitToInt, or what intToHex gave
    intVal               \* the argument of intToHex, or what hexDigitToInt gave

vars == <<argc, stdin, pc, idx, inputA, inputB, halves, pfd, child, chold, outb,
          inb, creq, collected, exitOrder, intermediateResults, final, out,
          exitStatus, faults, nread, tasks, leaves, depths, key, decrypt,
          hexChar, intVal>>

\* The variables intmul does not use.
others == <<key, decrypt, hexChar, intVal>>

OthersAtStart == key = <<>> /\ decrypt = FALSE /\ hexChar = 48 /\ intVal = 0

\* Longest operand (in digits) of the input lines.
MaxLen == 2

\* Most failures of the environment in one run: a malloc, pipe, fork, fdopen,
\* dup2 or execlp that fails, a child that fails in its own run or is
\* terminated by a signal.
MaxFaults == 1

(***************************************************************************)
(* Character helpers (ctype.h as used by the code, "C" locale).            *)
(***************************************************************************)
isdigit(c) == c >= 48 /\ c <= 57

isxdigit(c) == isdigit(c) \/ (c >= 97 /\ c <= 102) \/ (c >= 65 /\ c <= 70)

\* A tolower that leaves every character as it is.
tolowerIdentity(c) == c

tolower(c) == IF c >= 65 /\ c <= 90 THEN c + 32 ELSE c

\* The only element of a set of one element.  Only({e(x) : x \in {v}}) is
\* e(v) with v evaluated once, before e.
Only(S) == CHOOSE x \in S : TRUE

\* isValidHexadecimal: every character is 0-9, a-f, A-F or '\n'.
isValidHexadecimal(s) ==
    \A i \in 1..Len(s) :
        \/ (s[i] >= 48 /\ s[i] <= 57)
        \/ (s[i] >= 97 /\ s[i] <= 102)
        \/ (s[i] >= 65 /\ s[i] <= 70)
        \/ s[i] = 10

hexDigitToInt(hex) ==
    IF isxdigit(hex)
    THEN IF isdigit(hex) THEN hex - 48 ELSE tolower(hex) - 97 + 10
    ELSE -1

\* The table "0123456789ABCDEF".
hex_digitsCapitals == <<48, 49, 50, 51, 52, 53, 54, 55, 56, 57, 65, 66, 67, 68, 69, 70>>

hex_digits == <<48, 49, 50, 51, 52, 53, 54, 55, 56, 57, 97, 98, 99, 100, 101, 102>>

intToHex(num) == IF num >= 0 /\ num <= 15 THEN hex_digits[num + 1] ELSE -1

(***************************************************************************)
(* getline(3) on a stream given as the characters still unread: the line   *)
(* up to and including the first '\n' (or up to end of input), or -1 at    *)
(* end of input.                                                           *)
(***************************************************************************)
RECURSIVE LineEnd(_, _)
LineEnd(s, i) ==
    IF i > Len(s) THEN Len(s)
    ELSE IF s[i] = 10 THEN i
    ELSE LineEnd(s, i + 1)

getline(stream) ==
    IF Len(stream) = 0
    THEN [ret |-> -1, line |-> <<>>, rest |-> <<>>]
    ELSE LET e == LineEnd(stream, 1)
         IN  [ret  |-> e,
              line |-> SubSeq(stream, 1, e),
              rest |-> SubSeq(stream, e + 1, Len(stream))]

\* The newline trimming at the end of readInput.
TrimNewline(s) ==
    IF Len(s) > 0 /\ s[Len(s)] = 10 THEN SubSeq(s, 1, Len(s) - 1) ELSE s

\* The C string in a buffer: the bytes before the first NUL.  getline stores
\* a NUL byte of the input like any other byte; strlen and the loop of
\* isValidHexadecimal stop at it.
RECURSIVE strlen(_, _)
strlen(buf, i) ==
    IF i > Len(buf) THEN Len(buf)
    ELSE IF buf[i] = 0 THEN i - 1
    ELSE strlen(buf, i + 1)

CStr(buf) == SubSeq(buf, 1, strlen(buf, 1))

\* readInput without the two tests for an empty line.
readInputKeepEmpty(stream) ==
    LET first  == getline(stream)
        second == getline(first.rest)
    IN  IF first.ret = -1 \/ second.ret = -1
        THEN [ok |-> FALSE, A |-> <<>>, B |-> <<>>, read |-> Len(first.line)]
        ELSE IF ~isValidHexadecimal(CStr(first.line))
                  \/ ~isValidHexadecimal(CStr(second.line))
        THEN [ok |-> FALSE, A |-> <<>>, B |-> <<>>,
              read |-> Len(first.line) + Len(second.line)]
        ELSE [ok |-> TRUE,
              A  |-> TrimNewline(CStr(first.line)),
              B  |-> TrimNewline(CStr(second.line)),
              read |-> Len(first.line) + Len(second.line)]

(***************************************************************************)
(* readInput: ok = FALSE stands for exit(EXIT_FAILURE); read is the number *)
(* of bytes the getline calls took from the stream.                        *)
(***************************************************************************)
readInput(stream) ==
    Only({Only({
        LET none   == [ok |-> FALSE, A |-> <<>>, B |-> <<>>, read |-> 0]
            one    == [none EXCEPT !.read = Len(first.line)]
            both   == [none EXCEPT !.read = Len(first.line) + Len(second.line)]
        IN  IF first.ret = -1 THEN none
            ELSE IF first.ret = 1 /\ first.line[1] = 10 THEN one
            ELSE IF second.ret = -1 THEN one
            ELSE IF second.ret = 1 /\ second.line[1] = 10 THEN both
            ELSE IF ~isValidHexadecimal(CStr(first.line)) THEN both
            ELSE IF ~isValidHexadecimal(CStr(second.line)) THEN both
            ELSE [ok |-> TRUE,
                  A  |-> TrimNewline(CStr(first.line)),
                  B  |-> TrimNewline(CStr(second.line)),
                  read |-> Len(first.line) + Len(second.line)] :
        second \in {getline(first.rest)}}) : first \in {getline(stream)}})

(***************************************************************************)
(* padAndAlignNumbers                                                      *)
(***************************************************************************)
\* The loop with maxLength++ in place of maxLength *= 2.
RECURSIVE GrowMaxLengthByOne(_, _, _)
GrowMaxLengthByOne(maxLength, lenA, lenB) ==
    IF maxLength < lenA \/ maxLength < lenB
    THEN GrowMaxLengthByOne(maxLength + 1, lenA, lenB)
    ELSE maxLength

\* The loop with <= in place of <.
RECURSIVE GrowMaxLengthStrict(_, _, _)
GrowMaxLengthStrict(maxLength, lenA, lenB) ==
    IF maxLength <= lenA \/ maxLength <= lenB
    THEN GrowMaxLengthStrict(maxLength * 2, lenA, lenB)
    ELSE maxLength

RECURSIVE GrowMaxLength(_, _, _)
GrowMaxLength(maxLength, lenA, lenB) ==
    IF maxLength < lenA \/ maxLength < lenB
    THEN GrowMaxLength(maxLength * 2, lenA, lenB)
    ELSE maxLength

Zeros(k) == [j \in 1..k |-> 48]

padAndAlignNumbers(numA, numB) ==
    LET lenA == Len(numA)
        lenB == Len(numB)
        maxLength == GrowMaxLength(1, lenA, lenB)
    IN  [A |-> Zeros(maxLength - lenA) \o numA,
         B |-> Zeros(maxLength - lenB) \o numB]

(***************************************************************************)
(* splitNumbers: strncpy of the first mid characters, strcpy of the rest   *)
(* cut at index mid.                                                       *)
(***************************************************************************)
\* The terminating NUL written one place too early: Al[mid - 1] = '\0'.
CutAtShort(s, mid) == IF Len(s) > mid - 1 THEN SubSeq(s, 1, mid - 1) ELSE s

CutAt(s, mid) == IF Len(s) > mid THEN SubSeq(s, 1, mid) ELSE s

\* The low halves taken from one digit too far left.
splitNumbersOverlap(numA, numB) ==
    LET len == Len(numA)
        mid == len \div 2
    IN  [Ah |-> SubSeq(numA, 1, mid),
         Al |-> CutAt(SubSeq(numA, mid, Len(numA)), mid),
         Bh |-> SubSeq(numB, 1, mid),
         Bl |-> CutAt(SubSeq(numB, mid, Len(numB)), mid)]

splitNumbers(numA, numB) ==
    LET len == Len(numA)
        mid == len \div 2
    IN  [Ah |-> SubSeq(numA, 1, mid),
         Al |-> CutAt(SubSeq(numA, mid + 1, Len(numA)), mid),
         Bh |-> SubSeq(numB, 1, mid),
         Bl |-> CutAt(SubSeq(numB, mid + 1, Len(numB)), mid)]

\* A request whose second line is not terminated: "%s\n%s".
RequestUnterminated(A, B) == A \o <<10>> \o B

\* The request sendInputToChild writes: "%s\n%s\n".
Request(A, B) == A \o <<10>> \o B \o <<10>>

\* The operands with those of child 1 and child 2 exchanged.
ChildOperandsSwapped(h, i) ==
    IF i = 0 THEN <<h.Ah, h.Bh>>
    ELSE IF i = 1 THEN <<h.Al, h.Bh>>
    ELSE IF i = 2 THEN <<h.Ah, h.Bl>>
    ELSE <<h.Al, h.Bl>>

\* The operands of child i: (Ah,Bh), (Ah,Bl), (Al,Bh), (Al,Bl).
ChildOperands(h, i) ==
    IF i = 0 THEN <<h.Ah, h.Bh>>
    ELSE IF i = 1 THEN <<h.Ah, h.Bl>>
    ELSE IF i = 2 THEN <<h.Al, h.Bh>>
    ELSE <<h.Al, h.Bl>>

(***************************************************************************)
(* C integer division and remainder (truncation toward zero).              *)
(***************************************************************************)
CDiv(a, b) == IF a >= 0 THEN a \div b ELSE -((-a) \div b)

CMod(a, b) == a - b * CDiv(a, b)

\* addHexDigits without the carry that came in: result = numA + numB.
addHexDigitsDropCarry(a, b, carryOut) ==
    LET numA == hexDigitToInt(a)
        numB == hexDigitToInt(b)
        result == numA + numB
    IN  [digit |-> intToHex(CMod(result, 16)), carry |-> intToHex(CDiv(result, 16))]

\* addHexDigits adding the new carry to the one that came in.
addHexDigitsAddCarry(a, b, carryOut) ==
    LET numA == hexDigitToInt(a)
        numB == hexDigitToInt(b)
        numCarry == hexDigitToInt(carryOut)
        result == numA + numB + 16 * numCarry
    IN  [digit |-> intToHex(CMod(result, 16)),
         carry |-> intToHex(numCarry + CDiv(result, 16))]

(***************************************************************************)
(* addHexDigits: the sum digit and the new value of *carryOut.             *)
(***************************************************************************)
addHexDigits(a, b, carryOut) ==
    LET numA == hexDigitToInt(a)
        numB == hexDigitToInt(b)
        numCarry == hexDigitToInt(carryOut)
        result == numA + numB + 16 * numCarry
    IN  [digit |-> intToHex(CMod(result, 16)), carry |-> intToHex(CDiv(result, 16))]

(***************************************************************************)
(* The shifting loop of main.  buf is the buffer getline filled: the line  *)
(* with its '\n', then the terminating NUL; g stands for the bytes behind  *)
(* the NUL, which the code never wrote.  Indices are 0-based as in C.      *)
(***************************************************************************)
\* The byte one place further on.
BufAtNext(buf, j, g) ==
    IF j + 1 < Len(buf) THEN buf[j + 2]
    ELSE IF j + 1 = Len(buf) THEN 0
    ELSE g

BufAt(buf, j, g) ==
    IF j < Len(buf) THEN buf[j + 1]
    ELSE IF j = Len(buf) THEN 0
    ELSE g

\* The response of child 1 placed like that of child 0: lenA zeros behind
\* it and none before it.
ShiftResultHigh(i, buf, lenA, g) ==
    LET maxStringLength == 2 * lenA
        currentStringLength == lenA
        zerosBefore == lenA \div 2
    IN  [k \in 1..maxStringLength |->
            LET j == k - 1
            IN  IF i = 0 \/ i = 1
                THEN IF j < currentStringLength THEN BufAt(buf, j, g) ELSE 48
                ELSE IF i = 2
                THEN IF j < zerosBefore THEN 48
                     ELSE IF j < zerosBefore + currentStringLength
                          THEN BufAt(buf, j - zerosBefore, g)
                          ELSE 48
                ELSE IF j < lenA THEN 48 ELSE BufAt(buf, j - lenA, g)]

ShiftResult(i, buf, lenA, g) ==
    LET maxStringLength == 2 * lenA
        currentStringLength == lenA
        zerosBefore == lenA \div 2
    IN  [k \in 1..maxStringLength |->
            LET j == k - 1
            IN  IF i = 0
                THEN IF j < currentStringLength THEN BufAt(buf, j, g) ELSE 48
                ELSE IF i = 1 \/ i = 2
                THEN IF j < zerosBefore THEN 48
                     ELSE IF j < zerosBefore + currentStringLength
                          THEN BufAt(buf, j - zerosBefore, g)
                          ELSE 48
                ELSE IF j < lenA THEN 48 ELSE BufAt(buf, j - lenA, g)]

shiftedResults(results, lenA, g) ==
    [i \in 0..3 |-> ShiftResult(i, results[i], lenA, g)]

(***************************************************************************)
(* The summing loop of main: position i (0-based) from 2*lenA-1 down to 0, *)
(* each digit being the carry digit of the position before it plus the     *)
(* four shifted digits, added one at a time.                               *)
(***************************************************************************)
\* The loop over j ended after three of the four additions.
AddColumnThree(shifted, i, carry_in) ==
    LET a0 == addHexDigits(carry_in, shifted[0][i + 1], 48)
        a1 == addHexDigits(a0.digit, shifted[1][i + 1], a0.carry)
        a2 == addHexDigits(a1.digit, shifted[2][i + 1], a1.carry)
    IN  a2

\* The loop over j = 0..3 at position i: final_result[i] starts as the carry
\* digit of the position before, carry_digit as '0'.
AddColumn(shifted, i, carry_in) ==
    Only({Only({Only({addHexDigits(a2.digit, shifted[3][i + 1], a2.carry) :
                         a2 \in {addHexDigits(a1.digit, shifted[2][i + 1], a1.carry)}}) :
                   a1 \in {addHexDigits(a0.digit, shifted[1][i + 1], a0.carry)}}) :
             a0 \in {addHexDigits(carry_in, shifted[0][i + 1], 48)}})

RECURSIVE SumLoop(_, _, _, _)
SumLoop(shifted, i, carry_digit, done) ==
    IF i < 0 THEN done
    ELSE Only({SumLoop(shifted, i - 1, col.carry, <<col.digit>> \o done) :
                  col \in {AddColumn(shifted, i, carry_digit)}})

final_result(results, lenA, g) ==
    Only({SumLoop(shifted, 2 * lenA - 1, 48, <<>>) :
             shifted \in {shiftedResults(results, lenA, g)}})

\* carry_digit when the summing loop has ended.
RECURSIVE CarryLoop(_, _, _)
CarryLoop(shifted, i, carry_digit) ==
    IF i < 0 THEN carry_digit
    ELSE Only({CarryLoop(shifted, i - 1, col.carry) :
                  col \in {AddColumn(shifted, i, carry_digit)}})

final_carry(results, lenA, g) ==
    CarryLoop(shiftedResults(results, lenA, g), 2 * lenA - 1, 48)

(***************************************************************************)
(* printf("%02x\n", res) of the single digit case.                         *)
(***************************************************************************)
\* The digits of %X: upper case.
HexOfUpper(v) ==
    LET upper == <<48, 49, 50, 51, 52, 53, 54, 55, 56, 57, 65, 66, 67, 68, 69, 70>>
    IN  IF v < 16 THEN <<upper[v + 1]>>
        ELSE <<upper[(v \div 16) + 1], upper[(v % 16) + 1]>>

\* The digits of %x: the int converted to unsigned, 32 bits wide.
RECURSIVE HexOf(_)
HexOf(v) ==
    IF v < 0
    THEN LET place == <<268435456, 16777216, 1048576, 65536, 4096, 256, 16, 1>>
         IN  [k \in 1..8 |-> hex_digits[((v \div place[k]) % 16) + 1]]
    ELSE IF v < 16 THEN <<hex_digits[v + 1]>>
    ELSE HexOf(v \div 16) \o <<hex_digits[(v % 16) + 1]>>

\* printf("%x\n", res): no padding to two digits.
FormatX(res) == HexOf(res) \o <<10>>

Format02x(res) ==
    LET h == HexOf(res)
    IN  (IF Len(h) < 2 THEN Zeros(2 - Len(h)) ELSE <<>>) \o h \o <<10>>

BaseCase(a, b) ==
    LET br1 == hexDigitToInt(tolower(a[1]))
        br2 == hexDigitToInt(tolower(b[1]))
        res == br1 * br2
    IN  Format02x(res)

(***************************************************************************)
(* What one run of the program writes to stdout when it reads `stream`     *)
(* and nothing in its environment fails: main followed recursively through *)
(* its four children.  ok = FALSE is an exit with EXIT_FAILURE and nothing *)
(* written; tasks, leaves and depths count the forks and the single digit  *)
(* multiplications of the run and of the runs below it.                    *)
(***************************************************************************)
\* The forks in a run with the four children r: its own four and theirs.
TreeTasksOwn(r) == 4

TreeTasks(r) == 4 + r[1].tasks + r[2].tasks + r[3].tasks + r[4].tasks

\* The single digit multiplications of three of the four children.
TreeLeavesThree(r) == r[1].leaves + r[2].leaves + r[3].leaves

\* The single digit multiplications in a run with the four children r.
TreeLeaves(r) == r[1].leaves + r[2].leaves + r[3].leaves + r[4].leaves

\* The levels they are done at, counted from the run with the children r.
TreeDepths(r) ==
    {d + 1 : d \in r[1].depths \cup r[2].depths \cup r[3].depths \cup r[4].depths}

\* A run that failed.
IntmulFailed ==
    [ok |-> FALSE, out |-> <<>>, tasks |-> 0, leaves |-> 0, depths |-> {}]

\* The rest of the run once the four children have written r[1], .., r[4].
IntmulCombine(r, lenA) ==
    Only({IF \E i \in 1..4 : ~r[i].ok \/ lines[i].ret = -1
          THEN IntmulFailed
          ELSE [ok  |-> TRUE,
                out |-> final_result([i \in 0..3 |-> lines[i + 1].line], lenA, 0)
                            \o <<10>>,
                tasks  |-> TreeTasks(r),
                leaves |-> TreeLeaves(r),
                depths |-> TreeDepths(r)] :
             \* the lines the read loop gets
             lines \in {<<getline(r[1].out), getline(r[2].out),
                          getline(r[3].out), getline(r[4].out)>>}})

RECURSIVE Intmul(_)
\* The run on the operands p that padAndAlignNumbers returned.
IntmulPadded(p) ==
    IF Len(p.A) > 1
    THEN Only({IntmulCombine(r, Len(p.A)) :
                  r \in {LET h == splitNumbers(p.A, p.B)
                         IN  <<Intmul(Request(ChildOperands(h, 0)[1], ChildOperands(h, 0)[2])),
                               Intmul(Request(ChildOperands(h, 1)[1], ChildOperands(h, 1)[2])),
                               Intmul(Request(ChildOperands(h, 2)[1], ChildOperands(h, 2)[2])),
                               Intmul(Request(ChildOperands(h, 3)[1], ChildOperands(h, 3)[2]))>>}})
    ELSE [ok |-> TRUE, out |-> BaseCase(p.A, p.B), tasks |-> 0,
          leaves |-> 1, depths |-> {0}]

Intmul(stream) ==
    Only({IF ~in.ok THEN IntmulFailed
          ELSE Only({IntmulPadded(p) : p \in {padAndAlignNumbers(in.A, in.B)}}) :
             in \in {readInput(stream)}})

(***************************************************************************)
(* The operands the workers below a run on `stream` get from readInput,    *)
(* at every depth, before they pad them: <<A, B, n>> with n the length of  *)
(* the operands of the invocation that sent them.                          *)
(***************************************************************************)
RECURSIVE WorkerInputs(_)
\* Those below an invocation with the padded operands p.
WorkerInputsPadded(p) ==
    IF Len(p.A) > 1
    THEN LET h == splitNumbers(p.A, p.B)
             req == [i \in 0..3 |-> Request(ChildOperands(h, i)[1], ChildOperands(h, i)[2])]
         IN  UNION {Only({{<<in.A, in.B, Len(p.A)>>} \cup WorkerInputs(req[i]) :
                             in \in {readInput(req[i])}}) : i \in 0..3}
    ELSE {}

WorkerInputs(stream) ==
    Only({IF ~in.ok THEN {}
          ELSE WorkerInputsPadded(padAndAlignNumbers(in.A, in.B)) :
             in \in {readInput(stream)}})

(***************************************************************************)
(* The processes.  The parent is one run of main; child i is the process   *)
(* forked in iteration i of the fork loop.  Pipe end <<i, k>> is           *)
(* pipefd[i][k]: <<i,0>>/<<i,1>> the read/write end of the pipe to child   *)
(* i, <<i,2>>/<<i,3>> the read/write end of the pipe from child i.         *)
(***************************************************************************)
Children == 0..3

AllEnds == {<<i, k>> : i \in Children, k \in 0..3}

\* The character the operands of every length are made of: 'f' (padding
\* adds '0').
DigitChars == {102}

RECURSIVE StringsOf(_, _)
StringsOf(chars, n) ==
    IF n = 0 THEN {<<>>}
    ELSE {<<c>> \o s : c \in chars, s \in StringsOf(chars, n - 1)}

Operands == UNION {StringsOf(DigitChars, n) : n \in 1..MaxLen}

\* An input of two lines.
TwoLines(a, b) == a \o <<10>> \o b \o <<10>>

\* Two lines of hexadecimal digits, and inputs readInput rejects: no input,
\* an empty first or second line, a missing second line, a character that is
\* no digit ('g'), and a first line with 'g' behind a NUL byte.
\* The examples of the documentation, "1a" and "ab", "3" and "12", and
\* operands of mixed case: "F" and "b", "fB" and "Af".
Examples ==
    {<<49, 97, 10, 97, 98, 10>>, <<51, 10, 49, 50, 10>>,
     <<70, 10, 98, 10>>, <<102, 66, 10, 65, 102, 10>>}

Inputs ==
    {TwoLines(a, b) : a \in Operands, b \in Operands}
        \cup Examples
        \cup {<<>>, <<10, 49, 10>>, <<49, 10>>, <<49, 10, 10>>, <<49, 10, 103, 10>>,
              <<49, 0, 103, 10, 50, 10>>}

\* The values of a byte the code reads without having written it.
Uninit == {0, 48, 255}

\* The bytes a pipe holds before a write to it blocks (65536 under Linux),
\* scaled down to the operands of the model.
PipeCap == 7

\* The children that hold pipe end e, and whether any process holds it.
ChildHolders(e) == {c \in Children : e \in chold[c]}

IsOpen(e) == e \in pfd \/ ChildHolders(e) # {}

Exited(c) == child[c] \in {"exit0", "exit1", "signal"}

NoStrings == [i \in Children |-> <<>>]

\* The state of a process at the start of main.
AtStart ==
    /\ pc = "start"
    /\ idx = 0
    /\ inputA = <<>>
    /\ inputB = <<>>
    /\ halves = [Ah |-> <<>>, Al |-> <<>>, Bh |-> <<>>, Bl |-> <<>>]
    /\ pfd = {}
    /\ child = [i \in Children |-> "none"]
    /\ chold = [i \in Children |-> {}]
    /\ outb = NoStrings
    /\ inb = NoStrings
    /\ creq = NoStrings
    /\ collected = {}
    /\ exitOrder = <<>>
    /\ intermediateResults = NoStrings
    /\ final = <<>>
    /\ out = <<>>
    /\ exitStatus = "none"
    /\ faults = 0
    /\ nread = 0
    /\ tasks = 0
    /\ leaves = 0
    /\ depths = {}
    /\ OthersAtStart

Init ==
    /\ argc \in {1, 2}
    /\ stdin \in Inputs
    /\ AtStart

\* The parent terminates: every descriptor it holds is closed.
Terminate(status) ==
    /\ pc' = "done"
    /\ exitStatus' = status
    /\ pfd' = {}

\* exit(EXIT_FAILURE) with the diagnostic "E\n" printed to stdout.
ExitFailureStdout ==
    /\ Terminate("failure")
    /\ out' = out \o <<69, 10>>
    /\ UNCHANGED <<nread, tasks, leaves, depths, argc, stdin, idx, inputA, inputB, halves, child, chold, outb,
                   inb, creq, collected, exitOrder, intermediateResults, final,
                   faults>>

\* exit(EXIT_FAILURE): nothing is written to stdout.
ExitFailure ==
    /\ Terminate("failure")
    /\ UNCHANGED <<nread, tasks, leaves, depths, argc, stdin, idx, inputA, inputB, halves, child, chold, outb,
                   inb, creq, collected, exitOrder, intermediateResults, final, out,
                   faults>>

\* A call of the parent fails (malloc, pipe, fork, fdopen) and the parent
\* leaves with exit(EXIT_FAILURE).
FaultExit ==
    /\ faults < MaxFaults
    /\ faults' = faults + 1
    /\ Terminate("failure")
    /\ UNCHANGED <<nread, tasks, leaves, depths, argc, stdin, idx, inputA, inputB, halves, child, chold, outb,
                   inb, creq, collected, exitOrder, intermediateResults, final, out>>

\* Child c terminates: its descriptors are closed.
ChildExit(c, how) ==
    /\ child' = [child EXCEPT ![c] = how]
    /\ chold' = [chold EXCEPT ![c] = {}]
    /\ exitOrder' = Append(exitOrder, c)

\* A usage check that accepts any number of arguments.
UsageOkAny(n) == TRUE

\* The test of argc at the start of main.
UsageOk(n) == n = 1

\* The exits of readInput: the lines read so far are gone from stdin.
InputError ==
    /\ nread' = readInput(stdin).read
    /\ Terminate("failure")
    /\ UNCHANGED <<tasks, leaves, depths, argc, stdin, idx, inputA, inputB, halves,
                   child, chold, outb, inb, creq, collected, exitOrder,
                   intermediateResults, final, out, faults>>

(***************************************************************************)
(* main up to the test of lenA: the usage check, readInput and             *)
(* padAndAlignNumbers.                                                     *)
(***************************************************************************)
Start ==
    /\ pc = "start"
    /\ \/ /\ ~UsageOk(argc)
          /\ ExitFailure
       \/ /\ UsageOk(argc)
          /\ ~readInput(stdin).ok
          /\ InputError
       \/ /\ UsageOk(argc)
          /\ faults < MaxFaults  \* malloc returned NULL
          /\ \E in \in {readInput(stdin)} :
                 /\ in.ok
                 /\ nread' = in.read
          /\ faults' = faults + 1
          /\ Terminate("failure")
          /\ UNCHANGED <<tasks, leaves, depths, argc, stdin, idx, inputA, inputB,
                         halves, child, chold, outb, inb, creq, collected,
                         exitOrder, intermediateResults, final, out>>
       \/ /\ UsageOk(argc)
          /\ \E in \in {readInput(stdin)} :
                 /\ in.ok
                 /\ \E p \in {padAndAlignNumbers(in.A, in.B)} :
                        /\ nread' = in.read
                        /\ inputA' = p.A
                        /\ inputB' = p.B
                        /\ pc' = IF Len(p.A) > 1 THEN "split" ELSE "base"
          /\ UNCHANGED <<tasks, leaves, depths, argc, stdin, idx, halves, pfd,
                         child, chold, outb, inb, creq, collected, exitOrder,
                         intermediateResults, final, out, exitStatus, faults>>
    /\ UNCHANGED others

\* The four mallocs and splitNumbers.
Split ==
    /\ pc = "split"
    /\ \/ FaultExit              \* malloc returned NULL
       \/ /\ halves' = splitNumbers(inputA, inputB)
          /\ pc' = "pipes"
          /\ UNCHANGED <<nread, tasks, leaves, depths, argc, stdin, idx, inputA, inputB, pfd, child, chold, outb,
                         inb, creq, collected, exitOrder, intermediateResults,
                         final, out, exitStatus, faults>>
    /\ UNCHANGED others

\* The loop of the eight pipe calls.
CreatePipes ==
    /\ pc = "pipes"
    /\ \/ FaultExit              \* pipe returned -1
       \/ /\ pfd' = AllEnds
          /\ pc' = "fork"
          /\ idx' = 0
          /\ UNCHANGED <<nread, tasks, leaves, depths, argc, stdin, inputA, inputB, halves, child, chold, outb,
                         inb, creq, collected, exitOrder, intermediateResults,
                         final, out, exitStatus, faults>>
    /\ UNCHANGED others

\* A fork loop that waits for each child right after creating it.
ForkWaitEach ==
    /\ pc = "fork"
    /\ child' = [child EXCEPT ![idx] = "forked"]
    /\ chold' = [chold EXCEPT ![idx] = pfd]
    /\ pc' = "wait"
    /\ tasks' = tasks + 1
    /\ UNCHANGED <<nread, leaves, depths, argc, stdin, idx, inputA, inputB, halves, pfd, outb, inb, creq,
                   collected, exitOrder, intermediateResults, final, out,
                   exitStatus, faults>>
    /\ UNCHANGED others

\* One iteration of the fork loop, in the parent: the child starts with a
\* copy of every descriptor of the parent.
Fork ==
    /\ pc = "fork"
    /\ \/ FaultExit              \* fork returned -1
       \/ /\ child' = [child EXCEPT ![idx] = "forked"]
          /\ chold' = [chold EXCEPT ![idx] = pfd]
          /\ idx' = IF idx = 3 THEN 0 ELSE idx + 1
          /\ pc' = IF idx = 3 THEN "close" ELSE "fork"
          /\ tasks' = tasks + 1
          /\ UNCHANGED <<nread, leaves, depths, argc, stdin, inputA, inputB, halves, pfd, outb, inb, creq,
                         collected, exitOrder, intermediateResults, final, out,
                         exitStatus, faults>>
    /\ UNCHANGED others

\* A child without the close loop: it keeps every pipe end it inherited.
ChildEndsKeepAll(c) == AllEnds

\* The pipe ends child c keeps: pipefd[c][0] as stdin, pipefd[c][3] as stdout.
ChildEnds(c) == {<<c, 0>>, <<c, 3>>}

\* The child after fork: dup2, dup2, the close loop and execlp.
ChildSetup(c) ==
    /\ child[c] = "forked"
    /\ \/ /\ child' = [child EXCEPT ![c] = "ready"]
          /\ chold' = [chold EXCEPT ![c] = ChildEnds(c)]
          /\ UNCHANGED <<exitOrder, faults>>
       \/ /\ faults < MaxFaults  \* dup2 or execlp failed
          /\ faults' = faults + 1
          /\ ChildExit(c, "exit1")
    /\ UNCHANGED <<nread, tasks, leaves, depths, argc, stdin, pc, idx, inputA, inputB, halves, pfd, outb, inb,
                   creq, collected, intermediateResults, final, out, exitStatus>>
    /\ UNCHANGED others

\* The parent closes pipefd[i][0] and pipefd[i][3] for every i.
CloseUnused ==
    /\ pc = "close"
    /\ pfd' = pfd \ {<<i, k>> : i \in Children, k \in {0, 3}}
    /\ pc' = "send"
    /\ idx' = 0
    /\ UNCHANGED <<nread, tasks, leaves, depths, argc, stdin, inputA, inputB, halves, child, chold, outb, inb,
                   creq, collected, exitOrder, intermediateResults, final, out,
                   exitStatus, faults>>
    /\ UNCHANGED others

(***************************************************************************)
(* One iteration of the send loop: sendInputToChild(pipefd[idx][1], ...).  *)
(* The request reaches the pipe when fclose flushes it; writing to a pipe  *)
(* no process can read from raises SIGPIPE, which terminates the parent.   *)
(* The write blocks while the pipe is full: a step writes the bytes there  *)
(* is room for, and the iteration ends with the step that writes the last. *)
(***************************************************************************)
\* The bytes of the request to child i that have been written.
Sent(i) == Len(creq[i]) + Len(outb[i])

Send ==
    /\ pc = "send"
    /\ \/ /\ Sent(idx) = 0
          /\ FaultExit           \* fdopen returned NULL
       \/ /\ ~IsOpen(<<idx, 0>>)
          /\ Terminate("signal")
          /\ UNCHANGED <<nread, tasks, leaves, depths, argc, stdin, idx, inputA, inputB, halves, child, chold,
                         outb, inb, creq, collected, exitOrder,
                         intermediateResults, final, out, faults>>
       \/ /\ IsOpen(<<idx, 0>>)
          /\ LET req == Request(ChildOperands(halves, idx)[1],
                                ChildOperands(halves, idx)[2])
                 room == PipeCap - Len(outb[idx])
                 k == IF Len(req) - Sent(idx) < room THEN Len(req) - Sent(idx) ELSE room
                 whole == Sent(idx) + k = Len(req)
             IN  /\ room > 0
                 /\ outb' = [outb EXCEPT ![idx] =
                                 @ \o SubSeq(req, Sent(idx) + 1, Sent(idx) + k)]
                 /\ pfd' = IF whole THEN pfd \ {<<idx, 1>>} ELSE pfd
                 /\ idx' = IF ~whole THEN idx ELSE IF idx = 3 THEN 0 ELSE idx + 1
                 /\ pc' = IF whole /\ idx = 3 THEN "wait" ELSE "send"
          /\ UNCHANGED <<nread, tasks, leaves, depths, argc, stdin, inputA, inputB, halves, child, chold, inb,
                         creq, collected, exitOrder, intermediateResults, final,
                         out, exitStatus, faults>>
    /\ UNCHANGED others

\* WEXITSTATUS(status) of a terminated child: the exit code, and 0 for a
\* child a signal terminated.
WEXITSTATUS(how) == IF how = "exit1" THEN 1 ELSE 0

\* waitForChildren leaving with exit(EXIT_SUCCESS).
ChildErrorExitSuccess == Terminate("success")

\* The exit of waitForChildren for a child whose status is not EXIT_SUCCESS:
\* exit(EXIT_FAILURE).
ChildError == Terminate("failure")

\* One iteration of waitForChildren: waitpid(child[idx]) returns once child
\* idx has terminated.
\* waitForChildren followed at once by the shifting: no read loop.
WaitSkipRead ==
    /\ pc = "wait"
    /\ Exited(idx)
    /\ collected' = collected \cup {idx}
    /\ \/ /\ WEXITSTATUS(child[idx]) # 0
          /\ ChildError
          /\ UNCHANGED idx
       \/ /\ WEXITSTATUS(child[idx]) = 0
          /\ idx' = IF idx = 3 THEN 0 ELSE idx + 1
          /\ pc' = IF idx = 3 THEN "combine" ELSE "wait"
          /\ UNCHANGED <<pfd, exitStatus>>
    /\ UNCHANGED <<nread, tasks, leaves, depths, argc, stdin, inputA, inputB, halves, child, chold, outb, inb,
                   creq, exitOrder, intermediateResults, final, out, faults>>
    /\ UNCHANGED others

Wait ==
    /\ pc = "wait"
    /\ Exited(idx)
    /\ collected' = collected \cup {idx}
    /\ \/ /\ WEXITSTATUS(child[idx]) # 0
          /\ ChildError
          /\ UNCHANGED idx
       \/ /\ WEXITSTATUS(child[idx]) = 0
          /\ idx' = IF idx = 3 THEN 0 ELSE idx + 1
          /\ pc' = IF idx = 3 THEN "read" ELSE "wait"
          /\ UNCHANGED <<pfd, exitStatus>>
    /\ UNCHANGED <<nread, tasks, leaves, depths, argc, stdin, inputA, inputB, halves, child, chold, outb, inb,
                   creq, exitOrder, intermediateResults, final, out, faults>>
    /\ UNCHANGED others

\* A getline on a pipe returns when the pipe holds a whole line or no
\* process can write to it any more.
HasLine(s) == \E k \in 1..Len(s) : s[k] = 10

\* Reading the results in the order in which the children terminated.
ReadFromArrival(i) == IF i < Len(exitOrder) THEN exitOrder[i + 1] ELSE i

\* The pipe the read loop reads intermediateResults[i] from: pipefd[i][2].
ReadFrom(i) == i

(***************************************************************************)
(* One iteration of the read loop (with, before its first iteration, the   *)
(* mallocs of intermediateResults): fdopen, getline, fclose.               *)
(***************************************************************************)
Read ==
    /\ pc = "read"
    /\ HasLine(inb[ReadFrom(idx)]) \/ ~IsOpen(<<ReadFrom(idx), 3>>)
    /\ \/ FaultExit              \* malloc or fdopen returned NULL
       \/ /\ getline(inb[ReadFrom(idx)]).ret = -1
          /\ ExitFailure
       \/ /\ getline(inb[ReadFrom(idx)]).ret # -1
          /\ intermediateResults' =
                 [intermediateResults EXCEPT ![idx] = getline(inb[ReadFrom(idx)]).line]
          /\ inb' = [inb EXCEPT ![ReadFrom(idx)] = <<>>]
          /\ pfd' = pfd \ {<<ReadFrom(idx), 2>>}
          /\ idx' = IF idx = 3 THEN 0 ELSE idx + 1
          /\ pc' = IF idx = 3 THEN "combine" ELSE "read"
          /\ UNCHANGED <<nread, tasks, leaves, depths, argc, stdin, inputA, inputB, halves, child, chold, outb,
                         creq, collected, exitOrder, final, out, exitStatus, faults>>
    /\ UNCHANGED others

\* The shifting and the summing loop.
Combine ==
    /\ pc = "combine"
    /\ \E g \in Uninit :
           final' = final_result(intermediateResults, Len(inputA), g)
    /\ pc' = "print"
    /\ UNCHANGED <<nread, tasks, leaves, depths, argc, stdin, idx, inputA, inputB, halves, pfd, child, chold,
                   outb, inb, creq, collected, exitOrder, intermediateResults, out,
                   exitStatus, faults>>
    /\ UNCHANGED others

\* printf("%s\n", final_result), the frees and return 0.
PrintResult ==
    /\ pc = "print"
    /\ out' = out \o final \o <<10>>
    /\ Terminate("success")
    /\ UNCHANGED <<nread, tasks, leaves, depths, argc, stdin, idx, inputA, inputB, halves, child, chold, outb,
                   inb, creq, collected, exitOrder, intermediateResults, final,
                   faults>>
    /\ UNCHANGED others

\* The branch of main for operands of one digit; it stores the lower-case
\* form of each digit back into the operand before it multiplies.
Base ==
    /\ pc = "base"
    /\ inputA' = IF Len(inputA) = 1 THEN <<tolower(inputA[1])>> ELSE inputA
    /\ inputB' = IF Len(inputA) = 1 THEN <<tolower(inputB[1])>> ELSE inputB
    /\ out' = out \o (IF Len(inputA) = 1 THEN BaseCase(inputA, inputB) ELSE <<>>)
    /\ leaves' = IF Len(inputA) = 1 THEN leaves + 1 ELSE leaves
    /\ depths' = IF Len(inputA) = 1 THEN depths \cup {0} ELSE depths
    /\ Terminate("success")
    /\ UNCHANGED <<nread, tasks, argc, stdin, idx, halves, child, chold, outb,
                   inb, creq, collected, exitOrder, intermediateResults, final,
                   faults>>
    /\ UNCHANGED others

(***************************************************************************)
(* Child c after execlp: readInput on its standard input, which is the     *)
(* pipe from the parent.  A step takes the bytes the pipe holds; readInput *)
(* has its two lines when two newlines have come, and reads end of input   *)
(* when the pipe is empty and no process holds the write end any more.     *)
(***************************************************************************)
HasTwoLines(s) == HasLine(s) /\ HasLine(getline(s).rest)

WorkerRead(c) ==
    /\ child[c] = "ready"
    /\ \/ /\ outb[c] # <<>>
          /\ creq' = [creq EXCEPT ![c] = @ \o outb[c]]
          /\ outb' = [outb EXCEPT ![c] = <<>>]
          /\ child' = [child EXCEPT ![c] =
                           IF HasTwoLines(creq[c] \o outb[c]) THEN "got" ELSE "ready"]
          /\ UNCHANGED <<chold, exitOrder>>
       \/ /\ outb[c] = <<>>
          /\ ~IsOpen(<<c, 1>>)
          /\ ~readInput(creq[c]).ok
          /\ ChildExit(c, "exit1")
          /\ UNCHANGED <<creq, outb>>
       \/ /\ outb[c] = <<>>
          /\ ~IsOpen(<<c, 1>>)
          /\ readInput(creq[c]).ok
          /\ child' = [child EXCEPT ![c] = "got"]
          /\ UNCHANGED <<creq, outb, chold, exitOrder>>
    /\ UNCHANGED <<nread, tasks, leaves, depths, argc, stdin, pc, idx, inputA, inputB, halves, pfd, inb,
                   collected, intermediateResults, final, out, exitStatus, faults>>
    /\ UNCHANGED others

(***************************************************************************)
(* Child c runs the program on its request and terminates: with exit code  *)
(* 1 and nothing written when something in its own run fails, by a signal, *)
(* or with exit code 0 after writing what Intmul gives to its standard     *)
(* output, the pipe to the parent (SIGPIPE when no process can read it).   *)
(* When the pipe has no room for the whole line, the child writes what     *)
(* there is room for and stays blocked in that write; the parent reads the *)
(* pipe only after the child has terminated, so the write ends only with   *)
(* SIGPIPE, when the parent is gone.                                       *)
(***************************************************************************)
WorkerFinish(c) ==
    /\ child[c] \in {"got", "blocked"}
    /\ \/ /\ child[c] = "blocked"
          /\ ~IsOpen(<<c, 2>>)
          /\ ChildExit(c, "signal")
          /\ UNCHANGED <<inb, faults, tasks, leaves, depths>>
       \/ /\ child[c] = "got"
          /\ faults < MaxFaults
          /\ faults' = faults + 1
          /\ ChildExit(c, "exit1")
          /\ UNCHANGED <<inb, tasks, leaves, depths>>
       \/ /\ child[c] = "got"
          /\ faults < MaxFaults
          /\ faults' = faults + 1
          /\ ChildExit(c, "signal")
          /\ UNCHANGED <<inb, tasks, leaves, depths>>
       \/ /\ child[c] = "got"
          /\ \E run \in {Intmul(creq[c])} :
                 IF ~run.ok
                 THEN /\ ChildExit(c, "exit1")
                      /\ UNCHANGED <<inb, tasks, leaves, depths>>
                 ELSE IF ~IsOpen(<<c, 2>>)
                 THEN /\ ChildExit(c, "signal")
                      /\ UNCHANGED <<inb, tasks, leaves, depths>>
                 ELSE /\ tasks' = tasks + run.tasks
                      /\ leaves' = leaves + run.leaves
                      /\ depths' = depths \cup {d + 1 : d \in run.depths}
                      /\ IF Len(inb[c]) + Len(run.out) <= PipeCap
                         THEN /\ inb' = [inb EXCEPT ![c] = @ \o run.out]
                              /\ ChildExit(c, "exit0")
                         ELSE /\ inb' = [inb EXCEPT ![c] =
                                            @ \o SubSeq(run.out, 1, PipeCap - Len(@))]
                              /\ child' = [child EXCEPT ![c] = "blocked"]
                              /\ UNCHANGED <<chold, exitOrder>>
          /\ UNCHANGED faults
    /\ UNCHANGED <<nread, argc, stdin, pc, idx, inputA, inputB, halves, pfd, outb,
                   creq, collected, intermediateResults, final, out, exitStatus>>
    /\ UNCHANGED others

Next ==
    \/ Start
    \/ Split
    \/ CreatePipes
    \/ Fork
    \/ CloseUnused
    \/ Send
    \/ Wait
    \/ Read
    \/ Combine
    \/ PrintResult
    \/ Base
    \/ \E c \in Children : ChildSetup(c)
    \/ \E c \in Children : WorkerRead(c)
    \/ \E c \in Children : WorkerFinish(c)

Spec == Init /\ [][Next]_vars

(***************************************************************************)
(* The program as a function of its input: a run of the whole process tree *)
(* in which no call of the environment fails, taken in one step.           *)
(***************************************************************************)
\* The characters of the operands: '0', '9', 'a', 'F'.
FnChars == {48, 57, 97, 70}

InputsFn ==
    {TwoLines(a, b) : a, b \in UNION {StringsOf(FnChars, n) : n \in 1..MaxLen}}
        \cup Examples

InitFn ==
    /\ argc = 1
    /\ stdin \in InputsFn
    /\ AtStart

RunProgram ==
    /\ pc = "start"
    /\ LET run == Intmul(stdin)
       IN  /\ out' = out \o run.out
           /\ nread' = readInput(stdin).read
           /\ tasks' = run.tasks
           /\ leaves' = run.leaves
           /\ depths' = run.depths
           /\ Terminate(IF run.ok THEN "success" ELSE "failure")
    /\ UNCHANGED <<argc, stdin, idx, inputA, inputB, halves, child, chold, outb,
                   inb, creq, collected, exitOrder, intermediateResults, final,
                   faults>>
    /\ UNCHANGED others

NextFn == RunProgram

SpecFn == InitFn /\ [][NextFn]_vars

(***************************************************************************)
(* The program with workers that need not be intmul: execlp starts         *)
(* whatever argv[0] names, and the parent takes what that process writes   *)
(* to the pipe as the partial product.                                     *)
(***************************************************************************)
Ones(k) == [j \in 1..k |-> 49]

\* Responses that are not one line of n digits: nothing, n - 1 digits,
\* n + 1 digits, n - 1 digits and a 'g'.
BadResponses(n) ==
    {<<>>, Ones(n - 1) \o <<10>>, Ones(n + 1) \o <<10>>, Ones(n - 1) \o <<103, 10>>}

InitProto ==
    /\ argc = 1
    /\ stdin \in Examples
    /\ AtStart

\* Child c, started by execlp as some other program, has read its request;
\* it writes a response of its own and exits with 0.
WorkerForeign(c) ==
    /\ child[c] = "got"
    /\ IsOpen(<<c, 2>>)
    /\ faults < MaxFaults
    /\ faults' = faults + 1
    /\ \E m \in BadResponses(Len(inputA)) : inb' = [inb EXCEPT ![c] = @ \o m]
    /\ ChildExit(c, "exit0")
    /\ UNCHANGED <<nread, tasks, leaves, depths, argc, stdin, pc, idx, inputA,
                   inputB, halves, pfd, outb, creq, collected,
                   intermediateResults, final, out, exitStatus>>
    /\ UNCHANGED others

NextProto ==
    \/ Next
    \/ \E c \in Children : WorkerForeign(c)

SpecProto == InitProto /\ [][NextProto]_vars

(***************************************************************************)
(* The steps of one invocation up to the point where it would create its   *)
(* workers: the usage check, readInput, padAndAlignNumbers and the single  *)
(* digit case, for operands of every length up to MaxPadLen and for every  *)
(* pair of digits.  Renormalize applies padAndAlignNumbers to the padded    *)
(* pair once more, as a worker does with the halves it is sent.            *)
(***************************************************************************)
\* Longest operand of these inputs.
MaxPadLen == 5

\* '0' and 'F'.
PadChars == {48, 70}

PadOperands == UNION {StringsOf(PadChars, n) : n \in 1..MaxPadLen}

\* '0'..'9', 'A'..'F', 'a'..'f'
HexChars == (48..57) \cup (65..70) \cup (97..102)

InputsLocal ==
    {TwoLines(a, b) : a, b \in PadOperands}
        \cup {TwoLines(<<a>>, <<b>>) : a, b \in HexChars}

InitLocal ==
    /\ argc = 1
    /\ stdin \in InputsLocal
    /\ AtStart

Renormalize ==
    /\ pc \in {"split", "base"}
    /\ inputA' = padAndAlignNumbers(inputA, inputB).A
    /\ inputB' = padAndAlignNumbers(inputA, inputB).B
    /\ pc' = "renorm"
    /\ UNCHANGED <<nread, tasks, leaves, depths, argc, stdin, idx, halves, pfd,
                   child, chold, outb, inb, creq, collected, exitOrder,
                   intermediateResults, final, out, exitStatus, faults>>
    /\ UNCHANGED others

NextLocal ==
    \/ Start
    \/ Renormalize
    \/ Base

SpecLocal == InitLocal /\ [][NextLocal]_vars

(***************************************************************************)
(* The program as a function, on operands of up to MaxTreeLen digits: the  *)
(* first of '0' and 'f', the second of 'f' only.                           *)
(***************************************************************************)
MaxTreeLen == 4

InputsTree ==
    {TwoLines(a, b) :
        a \in UNION {StringsOf({48, 102}, n) : n \in 1..MaxTreeLen},
        b \in UNION {StringsOf({102}, n) : n \in 1..MaxTreeLen}}

InitTree ==
    /\ argc = 1
    /\ stdin \in InputsTree
    /\ AtStart

NextTree == RunProgram

SpecTree == InitTree /\ [][NextTree]_vars

(***************************************************************************)
(* Numbers and their hexadecimal notation, for stating the properties.     *)
(***************************************************************************)
(***************************************************************************)
(* The processes with operands against which a pipe is small: next to one  *)
(* and two digits, eight, whose requests (ten bytes) and whose workers'    *)
(* responses (nine bytes) do not fit into a pipe at once.                  *)
(***************************************************************************)
PipeOperandLens == {1, 2, 8}

InputsPipe ==
    {TwoLines([k \in 1..n |-> 102], [k \in 1..n |-> 102]) : n \in PipeOperandLens}

InitPipe ==
    /\ argc = 1
    /\ stdin \in InputsPipe
    /\ AtStart

SpecPipe == InitPipe /\ [][Next]_vars

(***************************************************************************)
(* The same processes under fair scheduling: the parent takes a step when  *)
(* one stays possible, and so does every child.                            *)
(***************************************************************************)
ParentStep ==
    \/ Start
    \/ Split
    \/ CreatePipes
    \/ Fork
    \/ CloseUnused
    \/ Send
    \/ Wait
    \/ Read
    \/ Combine
    \/ PrintResult
    \/ Base

ChildStep(c) == ChildSetup(c) \/ WorkerRead(c) \/ WorkerFinish(c)

Fairness == WF_vars(ParentStep) /\ \A c \in Children : WF_vars(ChildStep(c))

\* The inputs of SpecPipe in an environment in which no call fails.
InitPipeFair ==
    /\ argc = 1
    /\ stdin \in InputsPipe
    /\ pc = "start"
    /\ idx = 0
    /\ inputA = <<>>
    /\ inputB = <<>>
    /\ halves = [Ah |-> <<>>, Al |-> <<>>, Bh |-> <<>>, Bl |-> <<>>]
    /\ pfd = {}
    /\ child = [i \in Children |-> "none"]
    /\ chold = [i \in Children |-> {}]
    /\ outb = NoStrings
    /\ inb = NoStrings
    /\ creq = NoStrings
    /\ collected = {}
    /\ exitOrder = <<>>
    /\ intermediateResults = NoStrings
    /\ final = <<>>
    /\ out = <<>>
    /\ exitStatus = "none"
    /\ faults = MaxFaults
    /\ nread = 0
    /\ tasks = 0
    /\ leaves = 0
    /\ depths = {}
    /\ OthersAtStart

SpecPipeFair == InitPipeFair /\ [][Next]_vars /\ Fairness

\* SpecPipe, with the failures of the environment, under the same fairness.
SpecPipeFairFaults == InitPipe /\ [][Next]_vars /\ Fairness

(***************************************************************************)
(* The splitting alone, over the inputs of the third specification: main   *)
(* up to the call of splitNumbers.                                         *)
(***************************************************************************)
NextSplit == Start \/ Split

SpecSplit == InitLocal /\ [][NextSplit]_vars

(***************************************************************************)
(* The combiner alone: the shifting and the summing loop alone.  A run    *)
(* starts where the read loop of main has ended, with four responses of n  *)
(* digits in the buffers: for n = 2 every line over MaxCombDigits digit    *)
(* characters, for n = 4 the lines of one repeated character.              *)
(***************************************************************************)
\* The number of different digit characters in the responses.
MaxCombDigits == 2

\* 'f', '9', '0', '8', 'a'.
DigitPool == <<102, 57, 48, 56, 97>>

CombChars == {DigitPool[k] : k \in 1..MaxCombDigits}

CombLines(n) ==
    IF n = 2 THEN {d \o <<10>> : d \in StringsOf(CombChars, 2)}
    ELSE {[k \in 1..(n + 1) |-> IF k = n + 1 THEN 10 ELSE c] : c \in CombChars}

InitComb ==
    /\ argc = 1
    /\ \E n \in {2, 4} :
           /\ stdin = TwoLines(Zeros(n), Zeros(n))
           /\ inputA = Zeros(n)
           /\ inputB = Zeros(n)
           /\ halves = [Ah |-> Zeros(n \div 2), Al |-> Zeros(n \div 2),
                        Bh |-> Zeros(n \div 2), Bl |-> Zeros(n \div 2)]
           /\ creq = [i \in Children |-> TwoLines(Zeros(n \div 2), Zeros(n \div 2))]
           /\ intermediateResults \in [Children -> CombLines(n)]
           /\ nread = 2 * n + 2
    /\ \E run \in {Intmul(stdin)} :
           /\ tasks = run.tasks
           /\ leaves = run.leaves
           /\ depths = run.depths
    /\ pc = "combine"
    /\ idx = 0
    /\ pfd = {}
    /\ child = [i \in Children |-> "exit0"]
    /\ chold = [i \in Children |-> {}]
    /\ outb = NoStrings
    /\ inb = NoStrings
    /\ collected = Children
    /\ exitOrder = <<0, 1, 2, 3>>
    /\ final = <<>>
    /\ out = <<>>
    /\ exitStatus = "none"
    /\ faults = 0
    /\ OthersAtStart

NextComb == Combine \/ PrintResult

SpecComb == InitComb /\ [][NextComb]_vars

IsHexChar(c) == c \in (48..57) \cup (97..102) \cup (65..70)

IsLowerHexChar(c) == c \in (48..57) \cup (97..102)

DigitValue(c) ==
    IF c \in 48..57 THEN c - 48
    ELSE IF c \in 97..102 THEN c - 87
    ELSE c - 55

RECURSIVE HexValue(_)
HexValue(s) ==
    IF Len(s) = 0 THEN 0
    ELSE 16 * HexValue(SubSeq(s, 1, Len(s) - 1)) + DigitValue(s[Len(s)])

RECURSIVE Pow(_, _)
Pow(b, e) == IF e = 0 THEN 1 ELSE b * Pow(b, e - 1)

\* The smallest power of two that is at least n.
NextPow2(n) ==
    CHOOSE p \in {Pow(2, k) : k \in 0..n} :
        p >= n /\ \A q \in {Pow(2, k) : k \in 0..n} : q >= n => p <= q

LowerHexChar(d) == IF d < 10 THEN 48 + d ELSE 87 + d

\* v in lowercase hexadecimal, in exactly width digits.
ToHex(v, width) ==
    [k \in 1..width |-> LowerHexChar((v \div Pow(16, width - k)) % 16)]

\* The two operands of an input of two lines.
Newlines(s) == {k \in 1..Len(s) : s[k] = 10}

FirstNewline(s) == CHOOSE k \in Newlines(s) : \A m \in Newlines(s) : k <= m

FirstOperand(s) == SubSeq(s, 1, FirstNewline(s) - 1)

SecondOperand(s) == SubSeq(s, FirstNewline(s) + 1, Len(s) - 1)

ValidInput(s) ==
    /\ Cardinality(Newlines(s)) = 2
    /\ s[Len(s)] = 10
    /\ Len(FirstOperand(s)) >= 1
    /\ Len(SecondOperand(s)) >= 1
    /\ \A k \in 1..Len(s) : s[k] = 10 \/ IsHexChar(s[k])

Max(a, b) == IF a >= b THEN a ELSE b

\* The line the program has to write for input s.
ProductLine(s) ==
    LET a == FirstOperand(s)
        b == SecondOperand(s)
    IN  ToHex(HexValue(a) * HexValue(b), 2 * NextPow2(Max(Len(a), Len(b)))) \o <<10>>

(***************************************************************************)
(* C1: for all valid input lines A and B, a run of the program writes the  *)
(* exact product A*B in lowercase hexadecimal, padded with '0' on the left *)
(* to 2 * nextPow2(max(len(A), len(B))) digits, and ends with success.     *)
(***************************************************************************)
C1_ExactProduct ==
    (pc = "done" /\ ValidInput(stdin)) =>
        (exitStatus = "success" /\ out = ProductLine(stdin))

\* "3" and "12" give "0036", "1a" and "ab" give "115e".
C1_Witness ==
    /\ pc = "done"
    /\ stdin = <<51, 10, 49, 50, 10>>
    /\ out = <<48, 48, 51, 54, 10>>

\* The operands of the request for child c.
OperandA(c) == ChildOperands(halves, c)[1]

OperandB(c) == ChildOperands(halves, c)[2]

Created(c) == child[c] # "none"

\* s is one line of n hexadecimal digits with its newline.
IsHexLine(s, n) ==
    /\ Len(s) = n + 1
    /\ s[n + 1] = 10
    /\ \A k \in 1..n : IsHexChar(s[k])

(***************************************************************************)
(* C2: if one of the four workers fails (exit code not 0; in the model     *)
(* also: is terminated by a signal, which is how a failure deeper in the   *)
(* tree can reach it), the invocation never ends with success and never    *)
(* writes to stdout, whichever worker it was and whenever it failed.       *)
(***************************************************************************)
C2_FailurePropagates ==
    (\E c \in Children : child[c] \in {"exit1", "signal"}) =>
        /\ out = <<>>
        /\ exitStatus # "success"
        /\ pc = "done" => exitStatus \in {"failure", "signal"}

\* Worker 2 failed after worker 0 had succeeded; the parent has left with
\* EXIT_FAILURE.
C2_Witness ==
    /\ pc = "done"
    /\ exitStatus = "failure"
    /\ child[2] = "exit1"
    /\ child[0] = "exit0"
    /\ out = <<>>

(***************************************************************************)
(* C3: drain semantics: an invocation that has begun to wait for its       *)
(* workers terminates only when every worker it created has terminated and *)
(* has been collected, also after it saw one of them fail.                 *)
(***************************************************************************)
C3_Drain ==
    (pc = "done" /\ collected # {}) =>
        \A c \in Children : Created(c) => (Exited(c) /\ c \in collected)

C4_WitnessFailure ==
    /\ exitStatus = "failure"
    /\ collected = {0, 1}
    /\ out = <<>>

(***************************************************************************)
(* C5: a successful invocation on operands of padded length n writes       *)
(* exactly 2n hexadecimal digits and a newline (2 digits for n = 1); every *)
(* response the parent has read has exactly n digits and a newline, so     *)
(* that the result does not depend on a byte the worker did not write.     *)
(***************************************************************************)
C5_ResponseWidth ==
    /\ exitStatus = "success" => IsHexLine(out, 2 * Len(inputA))
    /\ \A i \in Children :
           intermediateResults[i] # <<>> =>
               IsHexLine(intermediateResults[i], Len(inputA))
    /\ pc = "print" =>
           \A g \in Uninit : final = final_result(intermediateResults, Len(inputA), g)

\* The parent has read four responses of n = 2 digits and summed them up.
C5_Witness ==
    /\ pc = "print"
    /\ Len(inputA) = 2
    /\ \A i \in Children : Len(intermediateResults[i]) = 3
    /\ Len(final) = 4

(***************************************************************************)
(* C6: no worker is waited for and no response is read before all four     *)
(* workers have been created.                                              *)
(***************************************************************************)
C6_CreateBeforeAwait ==
    (\/ pc \in {"wait", "read", "combine", "print"}
     \/ collected # {}
     \/ \E i \in Children : intermediateResults[i] # <<>>) =>
        \A c \in Children : Created(c)

\* The parent is about to wait for the first worker; worker 3 exists and has
\* not yet set up its streams.
C6_Witness ==
    /\ pc = "wait"
    /\ collected = {}
    /\ child[3] = "forked"

(***************************************************************************)
(* C7: if creating a worker fails (pipe or fork), the invocation ends with *)
(* a failure and nothing on stdout, and only after every worker it had     *)
(* already created has been collected.                                     *)
(***************************************************************************)
C7_SpawnErrorDrains ==
    [][(pc \in {"pipes", "fork"} /\ pc' = "done") =>
           /\ exitStatus' = "failure"
           /\ out' = <<>>
           /\ \A c \in Children : Created(c) => c \in collected']_vars

(***************************************************************************)
(* C8: the result is the same for every order in which the workers run and *)
(* terminate: intermediateResults[i] is what worker i wrote for its own    *)
(* operands, and the line written is the one the program gives for the     *)
(* input as a function.                                                    *)
(***************************************************************************)
C8_OrderIndependent ==
    /\ \A i \in Children :
           intermediateResults[i] # <<>> =>
               intermediateResults[i] = Intmul(TwoLines(OperandA(i), OperandB(i))).out
    /\ exitStatus = "success" => out = Intmul(stdin).out

\* Success after the workers terminated in the order 3, 2, 1, 0.
C8_Witness ==
    /\ exitStatus = "success"
    /\ Len(inputA) = 2
    /\ exitOrder = <<3, 2, 1, 0>>

(***************************************************************************)
(* C9: once the parent has closed its unused ends and every worker created *)
(* has set up its streams, pipefd[i][0] and pipefd[i][3] are held by       *)
(* worker i alone and pipefd[i][1] and pipefd[i][2] by no worker; what     *)
(* worker i read is the request for worker i, and what the pipe from       *)
(* worker i holds is what worker i wrote.                                  *)
(***************************************************************************)
C9_ChannelIsolation ==
    /\ (pc \in {"send", "wait", "read", "combine", "print"}
            /\ \A c \in Children : child[c] # "forked") =>
           \A i \in Children :
               /\ <<i, 0>> \notin pfd /\ <<i, 3>> \notin pfd
               /\ ChildHolders(<<i, 0>>) \subseteq {i}
               /\ ChildHolders(<<i, 3>>) \subseteq {i}
               /\ ChildHolders(<<i, 1>>) = {}
               /\ ChildHolders(<<i, 2>>) = {}
    /\ \A c \in Children :
           child[c] \in {"ready", "got"} => chold[c] = {<<c, 0>>, <<c, 3>>}
    /\ \A i \in Children :
           /\ creq[i] # <<>> => creq[i] = TwoLines(OperandA(i), OperandB(i))
           /\ inb[i] # <<>> => (child[i] = "exit0" /\ inb[i] = Intmul(creq[i]).out)

\* The parent is sending; all four workers are set up, worker 0 has read
\* its request.
C9_Witness ==
    /\ pc = "send"
    /\ idx = 2
    /\ child[0] = "got"
    /\ \A c \in 1..3 : child[c] = "ready"

(***************************************************************************)
(* C10: all that is ever written to the pipe to worker i is one request:   *)
(* two lines of n/2 hexadecimal digits, each with its newline; once it is  *)
(* written the parent has closed the write end.                            *)
(***************************************************************************)
C10_RequestFraming ==
    \A i \in Children :
        LET written == creq[i] \o outb[i]
            half == Len(inputA) \div 2
        IN  written # <<>> =>
                /\ Len(written) = 2 * half + 2
                /\ IsHexLine(SubSeq(written, 1, half + 1), half)
                /\ IsHexLine(SubSeq(written, half + 2, 2 * half + 2), half)
                /\ <<i, 1>> \notin pfd

\* The request for worker 1 is in its pipe, not yet read, and the parent
\* goes on to worker 2.
C10_Witness ==
    /\ pc = "send"
    /\ idx = 2
    /\ outb[1] = TwoLines(halves.Ah, halves.Bl)
    /\ Len(halves.Ah) = 1
    /\ <<1, 1>> \notin pfd
    /\ <<2, 1>> \in pfd

(***************************************************************************)
(* C11: a response that is not one line of exactly n hexadecimal digits    *)
(* (no line, another number of digits, a character that is no digit) is    *)
(* fatal: the invocation that read it writes nothing to stdout and does    *)
(* not end with success.                                                   *)
(***************************************************************************)
C11_ProtocolErrorFatal ==
    /\ (\E i \in Children :
            /\ intermediateResults[i] # <<>>
            /\ ~IsHexLine(intermediateResults[i], Len(inputA))) =>
           (out = <<>> /\ exitStatus # "success")
    /\ (exitStatus = "success" /\ Len(inputA) > 1) =>
           \A i \in Children : IsHexLine(intermediateResults[i], Len(inputA))

\* The first two lines of an input, without their newlines.
LineStop(s) == IF Newlines(s) = {} THEN Len(s) + 1 ELSE FirstNewline(s)

Line1(s) == SubSeq(s, 1, LineStop(s) - 1)

AfterLine1(s) == SubSeq(s, LineStop(s) + 1, Len(s))

Line2(s) == Line1(AfterLine1(s))

NoWorker == tasks = 0 /\ \A c \in Children : child[c] = "none"

(***************************************************************************)
(* C12: if one of the two input lines holds a character that is not a      *)
(* hexadecimal digit (the newline that ends the line apart), the           *)
(* invocation does not end with success, writes nothing to stdout and      *)
(* creates no worker.                                                      *)
(***************************************************************************)
C12_InvalidInputRejected ==
    (\/ \E k \in 1..Len(Line1(stdin)) : ~IsHexChar(Line1(stdin)[k])
     \/ \E k \in 1..Len(Line2(stdin)) : ~IsHexChar(Line2(stdin)[k])) =>
        /\ exitStatus # "success"
        /\ out = <<>>
        /\ NoWorker

(***************************************************************************)
(* C13: if the first or the second line cannot be read (the input ends     *)
(* before it) or is empty (only a newline), the invocation ends with a     *)
(* failure, writes nothing to stdout and creates no worker.                *)
(***************************************************************************)
C13_MissingOrEmptyLine ==
    (\/ stdin = <<>>
     \/ Line1(stdin) = <<>>
     \/ AfterLine1(stdin) = <<>>
     \/ Line2(stdin) = <<>>) =>
        /\ pc \in {"start", "done"}
        /\ pc = "done" => exitStatus = "failure"
        /\ out = <<>>
        /\ NoWorker

\* The run on "1", newline, newline: the second line is empty.
C13_Witness ==
    /\ stdin = <<49, 10, 10>>
    /\ argc = 1
    /\ pc = "done"
    /\ exitStatus = "failure"
    /\ nread = 3

(***************************************************************************)
(* C14: with a command line argument (argc # 1) the program ends with a    *)
(* failure without having read from stdin, created a worker or written to  *)
(* stdout.                                                                 *)
(***************************************************************************)
C14_UsageError ==
    argc # 1 =>
        /\ pc \in {"start", "done"}
        /\ pc = "done" => exitStatus = "failure"
        /\ nread = 0
        /\ inputA = <<>> /\ inputB = <<>>
        /\ out = <<>>
        /\ NoWorker

\* The run with one argument and the input "3", "12".
C14_Witness ==
    /\ argc = 2
    /\ stdin = <<51, 10, 49, 50, 10>>
    /\ pc = "done"
    /\ exitStatus = "failure"
    /\ nread = 0

\* s is t with zeros in front of it.
IsZeroPadded(s, t) ==
    /\ Len(s) >= Len(t)
    /\ SubSeq(s, Len(s) - Len(t) + 1, Len(s)) = t
    /\ \A k \in 1..(Len(s) - Len(t)) : s[k] = 48

\* The length both operands of input s are padded to.
PaddedLen(s) == NextPow2(Max(Len(Line1(s)), Len(Line2(s))))

(***************************************************************************)
(* C15: padAndAlignNumbers pads both operands on the left with '0' to the  *)
(* smallest power of two that is at least the longer of the two lengths:   *)
(* both have that length afterwards, the digits read are the rightmost     *)
(* digits and the values are unchanged.                                    *)
(***************************************************************************)
C15_PadToPowerOfTwo ==
    pc \in {"split", "base"} =>
        /\ Len(inputA) = PaddedLen(stdin)
        /\ Len(inputB) = PaddedLen(stdin)
        /\ IsZeroPadded(inputA, Line1(stdin))
        /\ IsZeroPadded(inputB, Line2(stdin))
        /\ HexValue(inputA) = HexValue(Line1(stdin))
        /\ HexValue(inputB) = HexValue(Line2(stdin))

\* "F0F" and "0" have become "0F0F" and "0000".
C15_Witness ==
    /\ pc = "split"
    /\ stdin = <<70, 48, 70, 10, 48, 10>>
    /\ inputA = <<48, 70, 48, 70>>
    /\ inputB = <<48, 48, 48, 48>>

(***************************************************************************)
(* C16: padding is idempotent: padAndAlignNumbers applied to a pair it has *)
(* returned gives that pair again.                                         *)
(***************************************************************************)
C16_PadIdempotent ==
    [][pc' = "renorm" => (inputA' = inputA /\ inputB' = inputB)]_vars

\* The pair padded from lengths 3 and 1 to length 4, padded once more.
C16_Witness ==
    /\ pc = "renorm"
    /\ Len(Line1(stdin)) = 3
    /\ Len(Line2(stdin)) = 1
    /\ Len(inputA) = 4
    /\ Len(inputB) = 4

(***************************************************************************)
(* C17: for single digits a and b, of either case, the invocation writes   *)
(* the product a*b as exactly two lowercase hexadecimal digits, the most   *)
(* significant first, and creates no worker; "f" and "f" give "e1".        *)
(***************************************************************************)
C17_BaseCase ==
    (Len(Line1(stdin)) = 1 /\ Len(Line2(stdin)) = 1) =>
        /\ NoWorker
        /\ pc \notin {"split", "pipes", "fork"}
        /\ (pc = "done" /\ faults = 0) =>
               /\ exitStatus = "success"
               /\ out = ToHex(DigitValue(Line1(stdin)[1]) * DigitValue(Line2(stdin)[1]), 2)
                            \o <<10>>

\* "F" and "f" give "e1".
C17_Witness ==
    /\ pc = "done"
    /\ stdin = <<70, 10, 102, 10>>
    /\ out = <<101, 49, 10>>
    /\ leaves = 1

\* The input with every letter in lower case.
LowerInput(s) == [k \in 1..Len(s) |-> IF s[k] \in 65..90 THEN s[k] + 32 ELSE s[k]]

(***************************************************************************)
(* C18: the case of the letters of the input does not affect the result:   *)
(* a run ends and writes as the run on the same input in lower case does,  *)
(* and every character of the line written, the newline apart, is one of   *)
(* 0-9a-f.                                                                 *)
(***************************************************************************)
C18_CaseInsensitive ==
    pc = "done" =>
        /\ out = Intmul(LowerInput(stdin)).out
        /\ (exitStatus = "success") = Intmul(LowerInput(stdin)).ok
        /\ \A k \in 1..(Len(out) - 1) : IsLowerHexChar(out[k])

\* "fB" times "Af" gives "ab95".
C18_Witness ==
    /\ pc = "done"
    /\ stdin = <<102, 66, 10, 65, 102, 10>>
    /\ out = <<97, 98, 57, 53, 10>>

Log2(n) == CHOOSE k \in 0..n : Pow(2, k) = n

(***************************************************************************)
(* C19 as the specification states it: for operand length n = 2^k a        *)
(* successful run creates exactly (4^k - 1) / 3 tasks in all.               *)
(***************************************************************************)
C19_TasksAsStated ==
    (pc = "done" /\ exitStatus = "success") =>
        tasks = (Pow(4, Log2(PaddedLen(stdin))) - 1) \div 3

(***************************************************************************)
(* C19: for operand length n = 2^k a successful run creates exactly        *)
(* 4 * (4^k - 1) / 3 tasks in all: four for each of the (4^k - 1) / 3      *)
(* invocations with operands of more than one digit.                       *)
(***************************************************************************)
C19_Tasks ==
    (pc = "done" /\ exitStatus = "success") =>
        tasks = 4 * ((Pow(4, Log2(PaddedLen(stdin))) - 1) \div 3)

\* Operands of 3 and 4 digits: n = 4, 4 + 16 tasks.
C19_Witness ==
    /\ pc = "done"
    /\ exitStatus = "success"
    /\ Len(Line1(stdin)) = 3
    /\ Len(Line2(stdin)) = 4
    /\ tasks = 20

(***************************************************************************)
(* C20: for operand length n = 2^k a successful run does exactly n^2       *)
(* single digit multiplications, every one of them k levels below the top. *)
(***************************************************************************)
C20_Leaves ==
    (pc = "done" /\ exitStatus = "success") =>
        /\ leaves = PaddedLen(stdin) * PaddedLen(stdin)
        /\ depths = {Log2(PaddedLen(stdin))}

\* n = 4: 16 multiplications at level 2.
C20_Witness ==
    /\ pc = "done"
    /\ exitStatus = "success"
    /\ PaddedLen(stdin) = 4
    /\ leaves = 16
    /\ depths = {2}

(***************************************************************************)
(* C21: waitForChildren ends the program with EXIT_FAILURE when the child  *)
(* it has waited for did not terminate normally with exit code 0: a child  *)
(* that exited with another code, and a child a signal terminated.         *)
(***************************************************************************)
C21_AbnormalChildFatal ==
    [][(pc = "wait" /\ collected' # collected /\ child[idx] \in {"exit1", "signal"}) =>
           (pc' = "done" /\ exitStatus' = "failure")]_vars

\* The high and the low half of an operand.
HighHalf(s) == SubSeq(s, 1, Len(s) \div 2)

LowHalf(s) == SubSeq(s, (Len(s) \div 2) + 1, Len(s))

\* The two operands worker i is to receive.
Dispatched(i) ==
    <<IF i \in {0, 1} THEN HighHalf(inputA) ELSE LowHalf(inputA),
      IF i \in {0, 2} THEN HighHalf(inputB) ELSE LowHalf(inputB)>>

(***************************************************************************)
(* C22: worker 0 receives (Ah, Bh), worker 1 (Ah, Bl), worker 2 (Al, Bh)   *)
(* and worker 3 (Al, Bl), the halves of the operands of the invocation.    *)
(***************************************************************************)
C22_DispatchMapping ==
    \A i \in Children :
        /\ outb[i] # <<>> => outb[i] = TwoLines(Dispatched(i)[1], Dispatched(i)[2])
        /\ creq[i] # <<>> => creq[i] = TwoLines(Dispatched(i)[1], Dispatched(i)[2])

\* "1a" times "ab": the four workers have read ("1","a"), ("1","b"),
\* ("a","a") and ("a","b").
C22_Witness ==
    /\ inputA = <<49, 97>>
    /\ inputB = <<97, 98>>
    /\ creq[0] = <<49, 10, 97, 10>>
    /\ creq[1] = <<49, 10, 98, 10>>
    /\ creq[2] = <<97, 10, 97, 10>>
    /\ creq[3] = <<97, 10, 98, 10>>

\* The digits of the response of worker i, and the digits by which the
\* combiner has to shift it.
Partial(i) == SubSeq(intermediateResults[i], 1, Len(inputA))

ShiftOf(i) == IF i = 0 THEN Len(inputA)
              ELSE IF i = 3 THEN 0
              ELSE Len(inputA) \div 2

\* All four responses have been read and each is a line of n digits.
AllRead == /\ pc \in {"combine", "print"}
           /\ \A i \in Children : IsHexLine(intermediateResults[i], Len(inputA))

(***************************************************************************)
(* C23: from four partial products of n digits the combiner makes four     *)
(* shifted values of exactly 2n digits: P0 followed by n zeros, P1 and P2  *)
(* between n/2 zeros and n/2 zeros, P3 after n zeros; the value of each is *)
(* P_i * 16^w with w = n, n/2, n/2, 0.                                     *)
(***************************************************************************)
C23_Shift ==
    AllRead =>
        \A g \in Uninit :
            LET n == Len(inputA)
                S == shiftedResults(intermediateResults, n, g)
            IN  /\ S[0] = Partial(0) \o Zeros(n)
                /\ S[1] = Zeros(n \div 2) \o Partial(1) \o Zeros(n \div 2)
                /\ S[2] = Zeros(n \div 2) \o Partial(2) \o Zeros(n \div 2)
                /\ S[3] = Zeros(n) \o Partial(3)
                /\ \A i \in Children :
                       /\ Len(S[i]) = 2 * n
                       /\ HexValue(S[i]) = HexValue(Partial(i)) * Pow(16, ShiftOf(i))

\* "1a" times "ab": the four products 0a, 0b, 64 and 6e have been shifted
\* to 0a00, 00b0, 0640 and 006e and summed to 115e.
C23_Witness ==
    /\ pc = "print"
    /\ intermediateResults = [i \in Children |->
           <<<<48, 97, 10>>, <<48, 98, 10>>, <<54, 52, 10>>, <<54, 101, 10>>>>[i + 1]]
    /\ final = <<49, 49, 53, 101>>

\* The sum of the four shifted digits at position k (1-based) and the carry
\* that comes in, and the carry that comes into position k when the columns
\* are summed from the right.
ColumnTotal(S, k, cin) ==
    DigitValue(S[0][k]) + DigitValue(S[1][k]) + DigitValue(S[2][k])
        + DigitValue(S[3][k]) + cin

RECURSIVE CarryInto(_, _)
CarryInto(S, k) ==
    IF k = Len(S[0]) THEN 0
    ELSE ColumnTotal(S, k + 1, CarryInto(S, k + 1)) \div 16

(***************************************************************************)
(* C24: the digit the combiner writes at each position is (d0 + d1 + d2 +  *)
(* d3 + carry_in) mod 16 and the carry into the next position is that sum  *)
(* div 16, d0..d3 being the digits of the four shifted values there and    *)
(* the carry into the rightmost position 0, although the four digits are   *)
(* added one at a time.                                                    *)
(***************************************************************************)
C24_ColumnSum ==
    (pc = "print" /\ AllRead) =>
        \A g \in Uninit :
            LET S == shiftedResults(intermediateResults, Len(inputA), g)
            IN  /\ Len(final) = 2 * Len(inputA)
                /\ \A k \in 1..Len(final) :
                       /\ final[k] = LowerHexChar(ColumnTotal(S, k, CarryInto(S, k)) % 16)
                       /\ \A cin \in 0..3 :
                              AddColumn(S, k - 1, LowerHexChar(cin)) =
                                  [digit |-> LowerHexChar(ColumnTotal(S, k, cin) % 16),
                                   carry |-> LowerHexChar(ColumnTotal(S, k, cin) \div 16)]

\* Four responses "ff": ff00 + 0ff0 + 0ff0 + 00ff; the columns give, from
\* the right, 15, 45, 47 and 17, and the digits written are 1fdf.
C24_Witness ==
    /\ pc = "print"
    /\ \A i \in Children : intermediateResults[i] = <<102, 102, 10>>
    /\ final = <<49, 102, 100, 102>>

(***************************************************************************)
(* C25: when the four responses are the products of the halves, as the     *)
(* workers of the program compute them, the carry out of the leftmost      *)
(* position of the sum is zero, and the 2n digits written are the exact    *)
(* sum of the four shifted values.                                         *)
(***************************************************************************)
C25_NoCarryOut ==
    (pc = "print" /\ AllRead) =>
        /\ \A g \in Uninit : final_carry(intermediateResults, Len(inputA), g) = 48
        /\ Len(final) = 2 * Len(inputA)
        /\ HexValue(final) =
               HexValue(Partial(0)) * Pow(16, ShiftOf(0))
             + HexValue(Partial(1)) * Pow(16, ShiftOf(1))
             + HexValue(Partial(2)) * Pow(16, ShiftOf(2))
             + HexValue(Partial(3)) * Pow(16, ShiftOf(3))

\* "ff" times "ff": four responses e1, whose sum e100 + 0e10 + 0e10 + 00e1
\* is fe01.
C25_Witness ==
    /\ pc = "print"
    /\ \A i \in Children : intermediateResults[i] = <<101, 49, 10>>
    /\ final = <<102, 101, 48, 49>>

(***************************************************************************)
(* C26: splitNumbers gives, for an operand of even length n, the first n/2 *)
(* digits as the high half and the last n/2 digits as the low half; both   *)
(* have length n/2, the high half followed by the low half is the operand, *)
(* and the operand is what it was before the split.                        *)
(***************************************************************************)
C26_Split ==
    pc = "pipes" =>
        LET n == Len(inputA)
            m == n \div 2
        IN  /\ n = 2 * m
            /\ Len(inputB) = n
            /\ halves.Ah = [k \in 1..m |-> inputA[k]]
            /\ halves.Al = [k \in 1..m |-> inputA[m + k]]
            /\ halves.Bh = [k \in 1..m |-> inputB[k]]
            /\ halves.Bl = [k \in 1..m |-> inputB[m + k]]
            /\ halves.Ah \o halves.Al = inputA
            /\ halves.Bh \o halves.Bl = inputB
            /\ IsZeroPadded(inputA, Line1(stdin)) /\ n = PaddedLen(stdin)
            /\ IsZeroPadded(inputB, Line2(stdin))

\* "F0F0F" and "F" have become "000F0F0F" and "0000000F" and have been
\* split into "000F", "0F0F" and "0000", "000F".
C26_Witness ==
    /\ pc = "pipes"
    /\ inputA = <<48, 48, 48, 70, 48, 70, 48, 70>>
    /\ halves = [Ah |-> <<48, 48, 48, 70>>, Al |-> <<48, 70, 48, 70>>,
                 Bh |-> <<48, 48, 48, 48>>, Bl |-> <<48, 48, 48, 70>>]

IsPow2(n) == n >= 1 /\ NextPow2(n) = n

(***************************************************************************)
(* C27: at every depth of a run, the two operands a worker receives have   *)
(* the same length, half the length of the operands of the invocation that *)
(* sent them and a power of two, so padAndAlignNumbers in the worker       *)
(* returns them as they are; only the top-level invocation pads.           *)
(***************************************************************************)
C27_WorkersNeverPad ==
    pc = "done" =>
        \A w \in WorkerInputs(stdin) :
            /\ Len(w[1]) = Len(w[2])
            /\ 2 * Len(w[1]) = w[3]
            /\ IsPow2(Len(w[1]))
            /\ padAndAlignNumbers(w[1], w[2]) = [A |-> w[1], B |-> w[2]]

\* "f0f" times "f": padded to "0f0f" and "000f" at the top; workers at depth
\* 1 got "0f" with "00" and "0f" with "0f", workers at depth 2 "f" with "f".
C27_Witness ==
    /\ pc = "done"
    /\ exitStatus = "success"
    /\ stdin = <<102, 48, 102, 10, 102, 10>>
    /\ depths = {2}
    /\ {<<<<48, 102>>, <<48, 48>>, 4>>, <<<<48, 102>>, <<48, 102>>, 4>>,
        <<<<102>>, <<102>>, 2>>} \subseteq WorkerInputs(stdin)

\* The state of the invocation's state machine that main is in.
Phase(p, status) ==
    IF p = "start" THEN "Start"
    ELSE IF p = "base" THEN "BaseCase"
    ELSE IF p = "split" THEN "Splitting"
    ELSE IF p \in {"pipes", "fork", "close", "send"} THEN "Dispatching"
    ELSE IF p \in {"wait", "read"} THEN "AwaitingAll"
    ELSE IF p \in {"combine", "print"} THEN "Combining"
    ELSE IF status = "success" THEN "Done"
    ELSE "Failed"

PhaseSteps ==
    {<<"Start", "BaseCase">>, <<"Start", "Splitting">>, <<"BaseCase", "Done">>,
     <<"Splitting", "Dispatching">>, <<"Dispatching", "AwaitingAll">>,
     <<"AwaitingAll", "Combining">>, <<"Combining", "Done">>}

PhaseOrder ==
    \/ Phase(pc', exitStatus') = Phase(pc, exitStatus)
    \/ <<Phase(pc, exitStatus), Phase(pc', exitStatus')>> \in PhaseSteps
    \/ Phase(pc, exitStatus) # "Done" /\ Phase(pc', exitStatus') = "Failed"

PhaseFacts ==
    LET ph == Phase(pc, exitStatus)
    IN  /\ ph = "BaseCase" \/ (ph = "Done" /\ Len(inputA) = 1) =>
               /\ Len(inputA) = 1
               /\ NoWorker
               /\ pfd = {} /\ outb = NoStrings /\ inb = NoStrings
        /\ ph \in {"Splitting", "Dispatching", "AwaitingAll", "Combining"} =>
               Len(inputA) > 1
        /\ ph = "AwaitingAll" \/ ph = "Combining" \/ (ph = "Done" /\ Len(inputA) > 1) =>
               \A c \in Children : Created(c)
        /\ ph = "Combining" \/ (ph = "Done" /\ Len(inputA) > 1) =>
               /\ collected = Children
               /\ \A c \in Children : Exited(c) /\ intermediateResults[c] # <<>>
        /\ (ph = "Done" /\ Len(inputA) > 1) => final # <<>>

(***************************************************************************)
(* C28: an invocation goes Start, then BaseCase or Splitting, Dispatching, *)
(* AwaitingAll, Combining, then Done, without skipping or going back (or   *)
(* ends as Failed).  With one digit it creates no pipe and no worker; with *)
(* more it has created all four workers when it waits, and it combines and *)
(* prints only when all four have been waited for and all four responses   *)
(* have been read.                                                         *)
(***************************************************************************)
C28_Lifecycle == []PhaseFacts /\ [][PhaseOrder]_vars

\* A run with two digits has printed: four workers created, waited for and
\* read.
C28_Witness ==
    /\ pc = "done"
    /\ exitStatus = "success"
    /\ Len(inputA) = 2
    /\ collected = Children
    /\ Len(out) = 5

\* A run with one digit has printed without a worker.
C28_WitnessBase ==
    /\ pc = "done"
    /\ exitStatus = "success"
    /\ Len(inputA) = 1
    /\ NoWorker
    /\ Len(out) = 3

(***************************************************************************)
(* C29: apart from waiting for its workers, the parent never has to wait:  *)
(* whenever it is in the send loop or in the read loop, the iteration it   *)
(* is in can take its step at once, whatever the workers have done so far. *)
(***************************************************************************)
C29_BlocksOnlyAtBarrier ==
    pc \in {"send", "read"} => ENABLED (Send \/ Read)

(***************************************************************************)
(* C30: once main has padded the operands, no step changes a digit stored  *)
(* in operand A or in operand B: not the split, the dispatch, the          *)
(* combination, nor the multiplication of the base case.                   *)
(***************************************************************************)
C30_OperandsImmutable ==
    [][pc # "start" => (inputA' = inputA /\ inputB' = inputB)]_vars

(***************************************************************************)
(* C31: under fair scheduling of the parent and of its workers every       *)
(* invocation terminates, whatever the length of the operands and the      *)
(* capacity of the pipes: the parent reaches its end, with success or with *)
(* failure.                                                                *)
(***************************************************************************)
C31_Terminates == <>(pc = "done")

\* The request main sends to child i.
RequestOf(i) ==
    Request(ChildOperands(halves, i)[1], ChildOperands(halves, i)[2])

\* A step that creates a child, writes to the pipe of child i, collects a
\* child with waitpid, takes a response from a pipe.
ForkStep == \E c \in Children : child[c] = "none" /\ child'[c] # "none"

WriteStep(i) == Sent(i)' # Sent(i)

WaitStep == collected' # collected

ReadStep(i) == pc = "read" /\ idx = i /\ intermediateResults' # intermediateResults

\* The pipes exist when a child is created.
PipesBeforeFork == ForkStep => pfd = AllEnds

\* The requests are written in the order 0, 1, 2, 3, each after the one
\* before it has been written whole and its pipe closed.
SendInOrder ==
    \A i \in Children :
        WriteStep(i) =>
            /\ \A j \in Children : j < i =>
                   Sent(j) = Len(RequestOf(j)) /\ <<j, 1>> \notin pfd
            /\ \A j \in Children : j > i => Sent(j) = 0

\* The first waitpid comes after the four requests.
SendBeforeWait ==
    WaitStep => \A i \in Children :
                    Sent(i) = Len(RequestOf(i)) /\ <<i, 1>> \notin pfd

\* waitpid is called for child 0, then 1, 2 and 3.
WaitInOrder ==
    WaitStep => \E k \in Children :
                    collected = {j \in Children : j < k} /\ collected' = collected \cup {k}

\* A response is taken when the four children have been collected and each
\* of them has left with exit(EXIT_SUCCESS).
ReadAfterSuccess ==
    \A i \in Children :
        ReadStep(i) => collected = Children /\ \A c \in Children : child[c] = "exit0"

(***************************************************************************)
(* C32: the order of the parent's steps for operands of more than one      *)
(* digit: every pipe exists before the first child is created; the four    *)
(* requests are written in the order 0, 1, 2, 3 and their pipes closed     *)
(* before the first waitpid; the children are waited for in the order 0,   *)
(* 1, 2, 3; and a response is read only when all four children have        *)
(* exited with EXIT_SUCCESS.                                               *)
(***************************************************************************)
C32_ParentOrder ==
    [][/\ PipesBeforeFork
       /\ SendInOrder
       /\ SendBeforeWait
       /\ WaitInOrder
       /\ ReadAfterSuccess]_vars

\* Child c has been created and its invoker has terminated without writing
\* a byte of its request.
Orphan(c) == pc = "done" /\ child[c] \in {"forked", "ready"} /\ Sent(c) = 0

\* A step of such a child takes it to its read or to exit(EXIT_FAILURE).
OrphanStep ==
    \A c \in Children :
        Orphan(c) /\ child'[c] # child[c] => child'[c] \in {"ready", "exit1"}

\* The parent and every child it created have terminated.
AllEnded == pc = "done" /\ \A c \in Children : child[c] = "none" \/ Exited(c)

(***************************************************************************)
(* C33: a worker whose invoker has terminated before it sent the request   *)
(* is not left waiting: its read finds the end of input and it leaves with *)
(* a nonzero status; and in every run, under fair scheduling, the parent   *)
(* and all of its workers terminate.                                       *)
(***************************************************************************)
C33_NoProcessLeft == <>AllEnded /\ [][OrphanStep]_vars

\* final_result[i] when the loop over j begins at position i: the carry
\* digit the position to its right left behind, '0' at the rightmost.
RECURSIVE StartDigit(_, _)
StartDigit(S, i) ==
    IF i = Len(S[0]) - 1 THEN 48
    ELSE Only({AddColumn(S, i + 1, d).carry : d \in {StartDigit(S, i + 1)}})

\* The four calls of addHexDigits at position i: the arguments a and b, the
\* value of *carryOut before the call, and what the call gives.
AddCalls(S, i) ==
    LET d  == StartDigit(S, i)
        a0 == addHexDigits(d, S[0][i + 1], 48)
        a1 == addHexDigits(a0.digit, S[1][i + 1], a0.carry)
        a2 == addHexDigits(a1.digit, S[2][i + 1], a1.carry)
        a3 == addHexDigits(a2.digit, S[3][i + 1], a2.carry)
    IN  <<[a |-> d,        b |-> S[0][i + 1], carryIn |-> 48,       res |-> a0],
          [a |-> a0.digit, b |-> S[1][i + 1], carryIn |-> a0.carry, res |-> a1],
          [a |-> a1.digit, b |-> S[2][i + 1], carryIn |-> a1.carry, res |-> a2],
          [a |-> a2.digit, b |-> S[3][i + 1], carryIn |-> a2.carry, res |-> a3]>>

\* The calls of intToHex in that call of addHexDigits: intToHex(result % 16)
\* and intToHex(result / 16).
IntToHexArgs(call) ==
    LET result == hexDigitToInt(call.a) + hexDigitToInt(call.b)
                      + 16 * hexDigitToInt(call.carryIn)
    IN  {CMod(result, 16), CDiv(result, 16)}

ValidCall(call) ==
    /\ IsHexChar(call.a) /\ IsHexChar(call.b)
    /\ hexDigitToInt(call.carryIn) \in 0..3
    /\ IntToHexArgs(call) \subseteq 0..15
    /\ \A v \in IntToHexArgs(call) : intToHex(v) # -1
    /\ IsLowerHexChar(call.res.digit)
    /\ hexDigitToInt(call.res.digit) \in 0..15
    /\ hexDigitToInt(call.res.carry) \in 0..3

(***************************************************************************)
(* C34: when the four responses are lines of n hex digits, every call of   *)
(* addHexDigits in the summing loop gets two hex digits and a carry digit  *)
(* between '0' and '3' and gives a hex digit and a carry digit between '0' *)
(* and '3'; every call of intToHex gets a value between 0 and 15 and never *)
(* gives -1; and the digits of the sum are hex digits.                     *)
(***************************************************************************)
C34_DigitsInRange ==
    (pc = "print" /\ AllRead) =>
        /\ \A k \in 1..Len(final) : IsLowerHexChar(final[k])
        /\ \A g \in Uninit :
               LET S == shiftedResults(intermediateResults, Len(inputA), g)
               IN  /\ IsLowerHexChar(final_carry(intermediateResults, Len(inputA), g))
                   /\ \A i \in 0..(2 * Len(inputA) - 1) :
                          \A j \in 1..4 : ValidCall(AddCalls(S, i)[j])

\* Four responses "ffff": there is a position whose loop begins with the
\* carry digit 2 of the position to its right, and whose last call gets a
\* carry of 1 or 2 and leaves the carry 2.
C34_Witness ==
    /\ pc = "print"
    /\ \A i \in Children : intermediateResults[i] = <<102, 102, 102, 102, 10>>
    /\ \E i \in 0..7 :
           LET calls == AddCalls(shiftedResults(intermediateResults, 4, 0), i)
           IN  /\ calls[1].a = 50
               /\ calls[4].carryIn \in {49, 50}
               /\ calls[4].res.carry = 50

(***************************************************************************)
(* vigenere.c: the program reads its input line by line and writes every   *)
(* line encrypted with the key, or decrypted when -d was given.  Of main   *)
(* the model has the key check and the run on standard input with output   *)
(* to standard output.                                                     *)
(***************************************************************************)
\* Longest input text and longest key, in characters.
MaxTextLen == 3

MaxKeyLen == 2

\* 'z', 'A', ' ', '\n' and the NUL byte.
TextChars == {122, 65, 32, 10, 0}

\* 'b', 'B', 'c' and '1'.
KeyChars == {98, 66, 99, 49}

Texts == UNION {StringsOf(TextChars, n) : n \in 0..MaxTextLen}

Keys == UNION {StringsOf(KeyChars, n) : n \in 0..MaxKeyLen}

\* What getline left behind the terminating NUL of the line in its buffer:
\* bytes of longer lines read before, or bytes never written.  The loops of
\* encryption and decryption run over the whole buffer (i < len).
Tails == {<<>>, <<122>>, <<0, 65>>}

\* A value returned as char (8 bits, signed).
CChar(v) == ((v + 128) % 256) - 128

isvalidkey(k) ==
    IF \E i \in 1..Len(k) :
           ~((k[i] >= 97 /\ k[i] <= 122) \/ (k[i] >= 65 /\ k[i] <= 90))
    THEN -1
    ELSE 0

\* char_int for capital letters only.
char_intCapitals(c) ==
    IF c >= 65 /\ c <= 90 THEN c - 65 ELSE c

char_int(c) ==
    IF c >= 97 /\ c <= 122 THEN c - 97
    ELSE IF c >= 65 /\ c <= 90 THEN c - 65
    ELSE c

int_char(c, base) ==
    IF base >= 97 /\ base <= 122 /\ c >= 0 /\ c <= 25 THEN 97 + c
    ELSE IF base >= 65 /\ base <= 90 /\ c >= 0 /\ c <= 25 THEN 65 + c
    ELSE CChar(c)

\* key[i % key_length], i counted from 0.
KeyAt(k, i) == k[(i % Len(k)) + 1]

\* One iteration of the loop of encryption, at index i (from 0) of buffer
\* line: the new value of line[i].
EncryptAt(line, k, i) ==
    LET currLetter == line[i + 1]
        currInt == char_int(currLetter)
        keyInt == char_int(KeyAt(k, i))
        upper == IF currLetter >= 65 /\ currLetter <= 90
                 THEN int_char(CMod(currInt + keyInt, 26), 65)
                 ELSE currLetter
    IN  IF currLetter >= 97 /\ currLetter <= 122
        THEN int_char(CMod(currInt + keyInt, 26), 97)
        ELSE upper

\* The same of decryption, without the + 26.
DecryptAtNoWrap(line, k, i) ==
    LET currLetter == line[i + 1]
        CurrInt == char_int(currLetter)
        keyInt == char_int(KeyAt(k, i))
    IN  IF currLetter >= 65 /\ currLetter <= 90
        THEN int_char(CMod(CurrInt - keyInt, 26), 65)
        ELSE IF currLetter >= 97 /\ currLetter <= 122
        THEN int_char(CMod(CurrInt - keyInt, 26), 97)
        ELSE currLetter

\* The same of decryption.
DecryptAt(line, k, i) ==
    LET currLetter == line[i + 1]
        CurrInt == char_int(currLetter)
        keyInt == char_int(KeyAt(k, i))
    IN  IF currLetter >= 65 /\ currLetter <= 90
        THEN int_char(CMod(CurrInt - keyInt + 26, 26), 65)
        ELSE IF currLetter >= 97 /\ currLetter <= 122
        THEN int_char(CMod(CurrInt - keyInt + 26, 26), 97)
        ELSE currLetter

\* The body of the while loop for one line: the buffer holds the line, its
\* terminating NUL and the tail g; every byte of it goes through the loop,
\* and fprintf("%s") writes the bytes before the first NUL.
CipherLine(ln, k, d, g) ==
    Only({CStr([i \in 1..Len(buf) |->
                   IF d THEN DecryptAt(buf, k, i - 1) ELSE EncryptAt(buf, k, i - 1)]) :
             buf \in {ln \o <<0>> \o g}})

\* encryption (d = FALSE) and decryption (d = TRUE) as functions of the
\* text: what they write for the lines of text.
RECURSIVE Cipher(_, _, _, _)
Cipher(text, k, d, g) ==
    Only({IF r.ret = -1 THEN <<>>
          ELSE CipherLine(r.line, k, d, g) \o Cipher(r.rest, k, d, g) :
             r \in {getline(text)}})

encryption(inputText, k, g) == Cipher(inputText, k, FALSE, g)

decryption(inputText, k, g) == Cipher(inputText, k, TRUE, g)

\* What is left of standard input.
Unread == SubSeq(stdin, nread + 1, Len(stdin))

\* The variables of intmul, which vigenere leaves alone.
intmulvars == <<idx, inputA, inputB, halves, pfd, child, chold, outb, inb, creq,
                collected, exitOrder, intermediateResults, final, faults, tasks,
                leaves, depths, hexChar, intVal>>

\* main up to the first call of encryption or decryption: the key check.
KeyCheck ==
    /\ pc = "start"
    /\ IF isvalidkey(key) = -1
       THEN pc' = "done" /\ exitStatus' = "failure"
       ELSE pc' = "loop" /\ UNCHANGED exitStatus
    /\ UNCHANGED <<argc, stdin, nread, out, key, decrypt, intmulvars>>

\* One iteration of the while loop: getline, the loop over the buffer and
\* fprintf.  With the empty key, which isvalidkey accepts, i % key_length
\* divides by zero: the process is terminated by SIGFPE, or the division
\* gives some index and the bytes found there are used as the key.
NextLine ==
    /\ pc = "loop"
    /\ \E r \in {getline(Unread)} :
           /\ r.ret # -1
           /\ \/ /\ key # <<>>
                 /\ \E g \in Tails : out' = out \o CipherLine(r.line, key, decrypt, g)
                 /\ nread' = nread + r.ret
                 /\ UNCHANGED <<pc, exitStatus>>
              \/ /\ key = <<>>
                 /\ \E m \in {<<0>>, <<98>>} :
                        out' = out \o CipherLine(r.line, m, decrypt, <<>>)
                 /\ nread' = nread + r.ret
                 /\ UNCHANGED <<pc, exitStatus>>
              \/ /\ key = <<>>
                 /\ pc' = "done"
                 /\ exitStatus' = "signal"
                 /\ nread' = nread + r.ret
                 /\ UNCHANGED out
    /\ UNCHANGED <<argc, stdin, key, decrypt, intmulvars>>

\* getline returns -1: free(line), and main returns.
EndOfInput ==
    /\ pc = "loop"
    /\ getline(Unread).ret = -1
    /\ pc' = "done"
    /\ exitStatus' = "success"
    /\ UNCHANGED <<argc, stdin, nread, out, key, decrypt, intmulvars>>

InitVigenere ==
    /\ key \in Keys
    /\ decrypt \in BOOLEAN
    /\ argc = IF decrypt THEN 3 ELSE 2
    /\ stdin \in Texts
    /\ pc = "start"
    /\ idx = 0
    /\ inputA = <<>>
    /\ inputB = <<>>
    /\ halves = [Ah |-> <<>>, Al |-> <<>>, Bh |-> <<>>, Bl |-> <<>>]
    /\ pfd = {}
    /\ child = [i \in Children |-> "none"]
    /\ chold = [i \in Children |-> {}]
    /\ outb = NoStrings
    /\ inb = NoStrings
    /\ creq = NoStrings
    /\ collected = {}
    /\ exitOrder = <<>>
    /\ intermediateResults = NoStrings
    /\ final = <<>>
    /\ out = <<>>
    /\ exitStatus = "none"
    /\ faults = 0
    /\ nread = 0
    /\ tasks = 0
    /\ leaves = 0
    /\ depths = {}
    /\ hexChar = 48
    /\ intVal = 0

NextVigenere == KeyCheck \/ NextLine \/ EndOfInput

SpecVigenere == InitVigenere /\ [][NextVigenere]_vars

\* The text has no NUL byte.
IsText(text) == \A p \in 1..Len(text) : text[p] # 0

\* The position of character p of the text in its line, counted from 0.
LinePos(text, p) ==
    Cardinality({q \in 1..(p - 1) : \A m \in q..(p - 1) : text[m] # 10})

\* The value of a key letter: 0 for a and A, .. 25 for z and Z.
KeyValue(c) == IF c >= 97 THEN c - 97 ELSE c - 65

\* Two keys that differ at most in the case of their letters.
SameLetters(k1, k2) ==
    /\ Len(k1) = Len(k2)
    /\ \A i \in 1..Len(k1) : KeyValue(k1[i]) = KeyValue(k2[i])

\* E[i] = (L[i] + K[i mod lK]) mod 26 for the letter c at position i of its
\* line, in the case of c.
Encrypted(c, k, i) ==
    LET shift == KeyValue(k[(i % Len(k)) + 1])
    IN  IF c \in 65..90 THEN 65 + ((c - 65 + shift) % 26)
        ELSE IF c \in 97..122 THEN 97 + ((c - 97 + shift) % 26)
        ELSE c

\* An encryption that has ended, of a text, with a key of at least one
\* letter.
EncryptionDone ==
    /\ pc = "done" /\ exitStatus = "success"
    /\ ~decrypt /\ key # <<>> /\ IsText(stdin)

CipherDone ==
    /\ pc = "done" /\ exitStatus = "success"
    /\ key # <<>> /\ isvalidkey(key) = 0 /\ IsText(stdin)

(***************************************************************************)
(* C36: for a key of one or more letters and a text, decrypting what the   *)
(* encryption wrote gives the text again, and so does encrypting what the  *)
(* decryption wrote, with the same key.                                    *)
(***************************************************************************)
C36_RoundTrip ==
    CipherDone =>
        \A g \in Tails :
            /\ ~decrypt => decryption(out, key, g) = stdin
            /\ decrypt => encryption(out, key, g) = stdin

\* "A z" decrypted with the key "c": A wraps around to Y, z becomes x.
C36_Witness ==
    /\ pc = "done"
    /\ decrypt
    /\ key = <<99>>
    /\ stdin = <<65, 32, 122>>
    /\ out = <<89, 32, 120>>
    /\ encryption(out, key, <<>>) = stdin

(***************************************************************************)
(* hexDigitToInt and intToHex as functions: a character and a value are    *)
(* given to them, and what they return is given to them again.             *)
(***************************************************************************)
\* The values given to intToHex are -2 .. MaxIntVal.
MaxIntVal == 17

\* The values of a char (8 bits, signed).
CharValues == (-128)..127

InitDigits ==
    /\ hexChar \in CharValues
    /\ intVal \in (-2)..MaxIntVal
    /\ key = <<>>
    /\ decrypt = FALSE
    /\ argc = 1
    /\ stdin = <<>>
    /\ pc = "start"
    /\ idx = 0
    /\ inputA = <<>>
    /\ inputB = <<>>
    /\ halves = [Ah |-> <<>>, Al |-> <<>>, Bh |-> <<>>, Bl |-> <<>>]
    /\ pfd = {}
    /\ child = [i \in Children |-> "none"]
    /\ chold = [i \in Children |-> {}]
    /\ outb = NoStrings
    /\ inb = NoStrings
    /\ creq = NoStrings
    /\ collected = {}
    /\ exitOrder = <<>>
    /\ intermediateResults = NoStrings
    /\ final = <<>>
    /\ out = <<>>
    /\ exitStatus = "none"
    /\ faults = 0
    /\ nread = 0
    /\ tasks = 0
    /\ leaves = 0
    /\ depths = {}

\* hexDigitToInt(hexChar) and intToHex(intVal); a second step gives the
\* results to the other function.
Convert ==
    /\ pc \in {"start", "once"}
    /\ hexChar' = intToHex(intVal)
    /\ intVal' = hexDigitToInt(hexChar)
    /\ pc' = IF pc = "start" THEN "once" ELSE "done"
    /\ UNCHANGED <<argc, stdin, idx, inputA, inputB, halves, pfd, child, chold,
                   outb, inb, creq, collected, exitOrder, intermediateResults,
                   final, out, exitStatus, faults, nread, tasks, leaves, depths,
                   key, decrypt>>

NextDigits == Convert

SpecDigits == InitDigits /\ [][NextDigits]_vars

\* The small letter for a capital letter, the character itself otherwise.
LowerForm(c) == IF c \in 65..90 THEN c + 32 ELSE c

\* What two steps of Convert make of hexChar and intVal.
RoundTrip ==
    (pc = "start" /\ pc' = "once") =>
        /\ intVal \in 0..15 => hexDigitToInt(hexChar') = intVal
        /\ IsHexChar(hexChar) => intToHex(intVal') = LowerForm(hexChar)
        /\ intVal' = -1 <=> ~IsHexChar(hexChar)
        /\ hexChar' = -1 <=> intVal \notin 0..15

(***************************************************************************)
(* C37: hexDigitToInt(intToHex(v)) = v for v in 0..15; for a hex digit c   *)
(* (0-9, a-f, A-F) intToHex(hexDigitToInt(c)) is c as a small letter;      *)
(* hexDigitToInt returns -1 for the characters that are no hex digits and  *)
(* for no other; intToHex returns -1 for the values outside 0..15 and for  *)
(* no other.                                                               *)
(***************************************************************************)
C37_DigitRoundTrip ==
    /\ [][RoundTrip]_vars
    /\ [](pc = "done" =>
              /\ intVal \in 0..15 => hexDigitToInt(intToHex(intVal)) = intVal
              /\ IsHexChar(hexChar) => intToHex(hexDigitToInt(hexChar)) = hexChar)

\* 'F' and 15 after two steps: 'F' gave 15 and 15 gave 'f', then 15 gave
\* 'f' and 'f' gave 15.
C37_Witness == pc = "done" /\ hexChar = 102 /\ intVal = 15

====
